---- MODULE Spec2Model ----
(***************************************************************************)
(* IIS2DLPC accelerometer driver (src/src/lib.rs, src/src/register/main.rs) *)
(* as a state machine over the device's register file.  Every driver       *)
(* operation is one action: it issues its bus transactions in program      *)
(* order against the register file, stops at the first transaction that    *)
(* fails (the `?` operator) and records what it returned.                  *)
(***************************************************************************)
EXTENDS Integers, Sequences, FiniteSets, TLC

VARIABLES
    regs,   \* the device's registers: register name -> byte
    pre,    \* the registers as they were when the last call started
    op,     \* name of the last driver operation called ("none" at start)
    arg,    \* argument of the last call
    log,    \* bus transactions the last call issued, in order
    ret,    \* what the last call returned
    last,   \* setter name -> argument of its most recent successful call
    prev,   \* the call before the last one: its name, argument and outcome
    calls   \* number of driver calls made so far

vars == <<regs, pre, op, arg, log, ret, last, prev, calls>>

----------------------------------------------------------------------------
(* Bounds of the checked behaviours. *)

\* driver calls per behaviour from a preloaded device
MaxCalls == 1
\* calls per behaviour where a setter is followed by a getter
MaxChain == 2
\* calls per behaviour of FIFO watermark and mode operations
MaxFifoCalls == 3
\* setter calls per behaviour where a sequence of setters is followed by a getter
MaxSets == 2

----------------------------------------------------------------------------
(* u8 arithmetic. *)

\* 2^n for the bit positions of a byte or of a 16-bit word
Pow2(n) ==
    << 1, 2, 4, 8, 16, 32, 64, 128, 256, 512, 1024, 2048, 4096, 8192, 16384,
       32768, 65536 >>[n + 1]

Byte == 0 .. 255

\* x << n on u8: bits shifted past bit 7 are lost
Shl(x, n) == (x * Pow2(n)) % 256
\* x >> n on u8
Shr(x, n) == x \div Pow2(n)
\* x & m for a mask m made of one run of `w` bits starting at bit `o`
BitsAt(x, o, w) == (x \div Pow2(o)) % Pow2(w)
\* bit i of x
Bit(x, i) == BitsAt(x, i, 1)
\* a w-bit pattern read as a two's-complement number
\* (faulty variant: the pattern is read as unsigned)
SignedMutantUnsigned(x, w) == x
Signed(x, w) == IF x >= Pow2(w - 1) THEN x - Pow2(w) ELSE x
\* (faulty variant of Unsigned: a negative number is clamped to zero)
UnsignedMutantClamp(x, w) == IF x < 0 THEN 0 ELSE x
\* the w-bit two's-complement pattern of a signed number
Unsigned(x, w) == IF x < 0 THEN x + Pow2(w) ELSE x

----------------------------------------------------------------------------
(* Register map. *)

Reg ==
    [ OutTL |-> 13, OutTH |-> 14, WhoAmI |-> 15, Ctrl1 |-> 32, Ctrl2 |-> 33,
      Ctrl3 |-> 34, Ctrl4Int1PadCtrl |-> 35, Ctrl5Int2PadCtrl |-> 36,
      Ctrl6 |-> 37, OutT |-> 38, Status |-> 39, OutXL |-> 40, OutXH |-> 41,
      OutYL |-> 42, OutYH |-> 43, OutZL |-> 44, OutZH |-> 45,
      FifoCtrl |-> 46, FifoSamples |-> 47,
      TapThsX |-> 48, TapThsY |-> 49, TapThsZ |-> 50, IntDur |-> 51,
      WakeUpThs |-> 52, WakeUpDur |-> 53, FreeFall |-> 54,
      StatusDup |-> 55, WakeUpSrc |-> 56, TapSrc |-> 57, SixdSrc |-> 58,
      AllIntSrc |-> 59, XOfsUsr |-> 60, YOfsUsr |-> 61, ZOfsUsr |-> 62,
      Ctrl7 |-> 63 ]

RegNames == DOMAIN Reg

\* the register at address a
At(a) == CHOOSE r \in RegNames : Reg[r] = a

\* the 16-bit output registers: struct -> the register of its low byte
WordRegs == [OutT |-> "OutTL", OutX |-> "OutXL", OutY |-> "OutYL", OutZ |-> "OutZL"]

F(n, b) == [name |-> n, bits |-> b]

\* Bit layouts, fields in declaration order (bitfield order = Lsb: the first
\* field sits at bit 0).
Ctrl1 == << F("lp_mode", 2), F("mode", 2), F("odr", 4) >>
Ctrl2 == << F("sim", 1), F("i2c_disable", 1), F("if_add_inc", 1), F("bdu", 1),
            F("cs_pu_disc", 1), F("not_used_01", 1), F("soft_reset", 1),
            F("boot", 1) >>
Ctrl3 == << F("slp_mode", 2), F("not_used_01", 1), F("h_lactive", 1),
            F("lir", 1), F("pp_od", 1), F("st", 2) >>
Ctrl4Int1PadCtrl ==
    << F("int1_drdy", 1), F("int1_fth", 1), F("int1_diff5", 1),
       F("int1_tap", 1), F("int1_ff", 1), F("int1_wu", 1),
       F("int1_single_tap", 1), F("int1_6d", 1) >>
Ctrl5Int2PadCtrl ==
    << F("int2_drdy", 1), F("int2_fth", 1), F("int2_diff5", 1),
       F("int2_ovr", 1), F("int2_drdy_t", 1), F("int2_boot", 1),
       F("int2_sleep_chg", 1), F("int2_sleep_state", 1) >>
Status == << F("drdy", 1), F("ff_ia", 1), F("six_d_ia", 1), F("single_tap", 1),
             F("double_tap", 1), F("sleep_state", 1), F("wu_ia", 1),
             F("fifo_ths", 1) >>
FifoSamples == << F("diff", 6), F("fifo_ovr", 1), F("fifo_fth", 1) >>
Ctrl6 == << F("not_used_01", 2), F("low_noise", 1), F("fds", 1), F("fs", 2),
            F("bw_filt", 2) >>
FifoCtrl == << F("fth", 5), F("fmode", 3) >>
TapThsX == << F("tap_thsx", 5), F("six_d_ths", 2), F("four_d_en", 1) >>
TapThsY == << F("tap_thsy", 5), F("tap_prior", 3) >>
TapThsZ == << F("tap_thsz", 5), F("tap_z_en", 1), F("tap_y_en", 1),
              F("tap_x_en", 1) >>
IntDur == << F("shock", 2), F("quiet", 2), F("latency", 4) >>
WakeUpThs == << F("wk_ths", 6), F("sleep_on", 1), F("single_double_tap", 1) >>
WakeUpDur == << F("sleep_dur", 4), F("stationary", 1), F("wake_dur", 2),
                F("ff_dur", 1) >>
FreeFall == << F("ff_ths", 3), F("ff_dur", 5) >>
Ctrl7 == << F("lpass_on6d", 1), F("hp_ref_mode", 1), F("usr_off_w", 1),
            F("usr_off_on_wu", 1), F("usr_off_on_out", 1),
            F("interrupts_enable", 1), F("int2_on_int1", 1),
            F("drdy_pulsed", 1) >>

Layout ==
    [ Ctrl1 |-> Ctrl1, Ctrl2 |-> Ctrl2, Ctrl3 |-> Ctrl3,
      Ctrl4Int1PadCtrl |-> Ctrl4Int1PadCtrl,
      Ctrl5Int2PadCtrl |-> Ctrl5Int2PadCtrl, Ctrl6 |-> Ctrl6,
      Status |-> Status, FifoCtrl |-> FifoCtrl, FifoSamples |-> FifoSamples, TapThsX |-> TapThsX, TapThsY |-> TapThsY,
      TapThsZ |-> TapThsZ, IntDur |-> IntDur, WakeUpThs |-> WakeUpThs,
      WakeUpDur |-> WakeUpDur, FreeFall |-> FreeFall, Ctrl7 |-> Ctrl7 ]

\* the one-byte registers whose fields the driver reads or sets singly
CtrlRegs == DOMAIN Layout

FieldIdx(L, f) == CHOOSE i \in 1 .. Len(L) : L[i].name = f

RECURSIVE BitsBefore(_, _)
BitsBefore(L, i) == IF i = 1 THEN 0 ELSE L[i - 1].bits + BitsBefore(L, i - 1)

\* where each field of each register sits: its first bit and its width
FieldPos ==
    [r \in CtrlRegs |->
        [f \in {Layout[r][i].name : i \in 1 .. Len(Layout[r])} |->
            [off |-> BitsBefore(Layout[r], FieldIdx(Layout[r], f)),
             bits |-> Layout[r][FieldIdx(Layout[r], f)].bits]]]

Offset(r, f) == FieldPos[r][f].off
Width(r, f) == FieldPos[r][f].bits

\* field getter of register r on byte b
Get(r, f, b) == BitsAt(b, Offset(r, f), Width(r, f))

\* field setter of register r on byte b: only the field's bit span changes
\* faulty variants: one that drops the other fields, one that also
\* overwrites the bit above the field
WithMutantWholeByte(r, f, b, v) == (v % Pow2(Width(r, f))) * Pow2(Offset(r, f))
WithMutantAdjacent(r, f, b, v) ==
    LET o == Offset(r, f)
        w == Width(r, f) + 1
    IN  (b - BitsAt(b, o, w) * Pow2(o) + (v % Pow2(w)) * Pow2(o)) % 256
\* (faulty variant: the register's unused bits are written as zero)
WithMutantUnusedZero(r, f, b, v) ==
    LET o == Offset(r, f)
        w == Width(r, f)
        x == b - BitsAt(b, o, w) * Pow2(o) + (v % Pow2(w)) * Pow2(o)
        u == "not_used_01"
    IN  IF u \in DOMAIN FieldPos[r]
        THEN x - BitsAt(x, Offset(r, u), Width(r, u)) * Pow2(Offset(r, u))
        ELSE x
\* (faulty variant: the value is added to what the field held)
WithMutantAdd(r, f, b, v) ==
    LET o == Offset(r, f)
        w == Width(r, f)
    IN  b - BitsAt(b, o, w) * Pow2(o)
          + ((BitsAt(b, o, w) + v) % Pow2(w)) * Pow2(o)
With(r, f, b, v) ==
    LET o == Offset(r, f)
        w == Width(r, f)
    IN  b - BitsAt(b, o, w) * Pow2(o) + (v % Pow2(w)) * Pow2(o)

\* power-on content of a register (the fields' declared defaults)
ResetValue(r) == IF r = "Ctrl2" THEN 4 ELSE 0

PROPERTY_ENABLE == 1
PROPERTY_DISABLE == 0

----------------------------------------------------------------------------
(* Bus transport and error propagation. *)

\* errors the transport can report; the driver never looks inside them
BusErrors == {"Nack", "Timeout"}

\* the Error enum's variants
ErrorKinds == {"Bus", "WhoAmIError", "UnexpectedValue"}

NoError == [kind |-> "none", cause |-> "none"]
NoFault == [at |-> 0, cause |-> "none"]

\* what the transport does during one call: nothing wrong, or its at-th
\* transaction fails with `cause`
Faults(n, causes) == {NoFault} \cup [at : 1 .. n, cause : causes]

\* a call in progress: registers, transactions so far, byte last read, error
Begin(fault) ==
    [regs |-> regs, log |-> << >>, got |-> 0, err |-> NoError, fault |-> fault]

\* one bus transaction: n bytes at the address of register r; d is the
\* little-endian value of the bytes moved (0 for a read that failed); c is
\* the error the transport reported, "none" when it reported none
Tx(k, r, n, d, c) ==
    [kind |-> k, addr |-> Reg[r], len |-> n, data |-> d, ok |-> c = "none",
     cause |-> c]

\* the n bytes of the register file starting at register r, little-endian
LeBytes(file, r, n) ==
    IF n = 1 THEN file[r] ELSE file[r] + 256 * file[At(Reg[r] + 1)]

\* Error::Bus wrapping of a transport error (map_err(Error::Bus))
\* (faulty variant: the transport error is replaced by UnexpectedValue)
MapErrMutantUnexpected(cause) == [kind |-> "UnexpectedValue", cause |-> "none"]
MapErr(cause) == [kind |-> "Bus", cause |-> cause]

\* `x?`: once a transaction has failed the rest of the body does not run
\* (faulty variant: the body keeps running after a failure)
TryMutantContinue(s, next) ==
    [next EXCEPT !.err = IF s.err = NoError THEN next.err ELSE s.err]
Try(s, next) == IF s.err = NoError THEN next ELSE s

\* read_from_register: one bus read of n bytes starting at register r
\* (faulty variant: the driver answers from a copy of the registers it kept
\* from before the previous call)
ReadFromRegisterMutantShadow(s, r, n) ==
    [s EXCEPT !.log = Append(@, Tx("read", r, n, LeBytes(pre, r, n), "none")),
              !.got = LeBytes(pre, r, n)]
ReadFromRegister(s, r, n) ==
    IF Len(s.log) + 1 = s.fault.at
    THEN [s EXCEPT !.log = Append(@, Tx("read", r, n, 0, s.fault.cause)),
                   !.err = MapErr(s.fault.cause)]
    ELSE [s EXCEPT !.log = Append(@, Tx("read", r, n, LeBytes(s.regs, r, n), "none")),
                   !.got = LeBytes(s.regs, r, n)]

\* write_to_register: one bus write of byte d to register r
\* (faulty variant: a write that fails has changed the register all the same)
WriteToRegisterMutantApplied(s, r, d) ==
    IF Len(s.log) + 1 = s.fault.at
    THEN [s EXCEPT !.log = Append(@, Tx("write", r, 1, d, s.fault.cause)),
                   !.err = MapErr(s.fault.cause),
                   !.regs[r] = d]
    ELSE [s EXCEPT !.log = Append(@, Tx("write", r, 1, d, "none")),
                   !.regs[r] = d]
WriteToRegister(s, r, d) ==
    IF Len(s.log) + 1 = s.fault.at
    THEN [s EXCEPT !.log = Append(@, Tx("write", r, 1, d, s.fault.cause)),
                   !.err = MapErr(s.fault.cause)]
    ELSE [s EXCEPT !.log = Append(@, Tx("write", r, 1, d, "none")),
                   !.regs[r] = d]

\* R::read(self)? and r.write(self)? of the one-byte register structs, and
\* R::read(self)? of the 16-bit output registers
\* (faulty variant: the byte read is written back to the register)
ReadMutantWriteBack(s, r) ==
    LET x == Try(s, ReadFromRegister(s, r, 1))
    IN  Try(x, WriteToRegister(x, r, x.got))
Read(s, r) == Try(s, ReadFromRegister(s, r, 1))
\* (faulty variant: a write is followed by a read of the register written)
WriteMutantReadBack(s, r, d) ==
    LET w == Try(s, WriteToRegister(s, r, d))
    IN  Try(w, ReadFromRegister(w, r, 1))
Write(s, r, d) == Try(s, WriteToRegister(s, r, d))
ReadWord(s, R) == Try(s, ReadFromRegister(s, WordRegs[R], 2))

Ok(v) == [tag |-> "Ok", val |-> v, kind |-> "none", cause |-> "none", ovf |-> FALSE]
Err(e) == [tag |-> "Err", val |-> "none", kind |-> e.kind, cause |-> e.cause, ovf |-> FALSE]

\* the call returns: Ok(v) unless a transaction failed
\* (faulty variant: a failed call leaves the registers as it found them)
ReturnMutantRollback(name, a, s, v) ==
    /\ regs' = IF s.err = NoError THEN s.regs ELSE regs
    /\ pre' = regs
    /\ op' = name
    /\ arg' = a
    /\ log' = s.log
    /\ ret' = IF s.err = NoError THEN v ELSE Err(s.err)
    /\ prev' = [op |-> op, arg |-> arg, tag |-> ret.tag]
Return(name, a, s, v) ==
    /\ regs' = s.regs
    /\ pre' = regs
    /\ op' = name
    /\ arg' = a
    /\ log' = s.log
    /\ ret' = IF s.err = NoError THEN v ELSE Err(s.err)
    /\ prev' = [op |-> op, arg |-> arg, tag |-> ret.tag]
\* a setter returned: remember its argument when it succeeded
SetterReturn(name, a, s) ==
    /\ Return(name, a, s, Ok("unit"))
    /\ last' = IF s.err = NoError
               THEN [n \in DOMAIN last \cup {name} |->
                        IF n = name THEN a ELSE last[n]]
               ELSE last

GetterReturn(name, s, v) ==
    /\ Return(name, "none", s, v)
    /\ last' = last

----------------------------------------------------------------------------
(* Interrupt routing. *)

\* the event bits that make pin_int1_route_set / pin_int2_route_set turn
\* interrupts_enable on
\* (faulty variant: any of the sixteen bits counts)
RouteEnableMutantAnyBit(ctrl4, ctrl5) ==
    IF ctrl4 # 0 \/ ctrl5 # 0 THEN 1 ELSE 0
\* (faulty variant: int2_sleep_chg does not count)
RouteEnableMutantNoSleepChg(ctrl4, ctrl5) ==
    IF \/ Get("Ctrl5Int2PadCtrl", "int2_sleep_state", ctrl5) # 0
       \/ \E f \in {"int1_tap", "int1_ff", "int1_wu", "int1_single_tap", "int1_6d"} :
            Get("Ctrl4Int1PadCtrl", f, ctrl4) # 0
    THEN PROPERTY_ENABLE ELSE PROPERTY_DISABLE
RouteEnable(ctrl4, ctrl5) ==
    IF \/ Get("Ctrl5Int2PadCtrl", "int2_sleep_state", ctrl5) # 0
       \/ Get("Ctrl5Int2PadCtrl", "int2_sleep_chg", ctrl5) # 0
       \/ Get("Ctrl4Int1PadCtrl", "int1_tap", ctrl4) # 0
       \/ Get("Ctrl4Int1PadCtrl", "int1_ff", ctrl4) # 0
       \/ Get("Ctrl4Int1PadCtrl", "int1_wu", ctrl4) # 0
       \/ Get("Ctrl4Int1PadCtrl", "int1_single_tap", ctrl4) # 0
       \/ Get("Ctrl4Int1PadCtrl", "int1_6d", ctrl4) # 0
    THEN PROPERTY_ENABLE
    ELSE PROPERTY_DISABLE

\* (faulty variant: the pad register is read and only its event bits are
\* replaced)
pin_int1_route_setMutantMerge(val, fault) ==
    LET s0 == Begin(fault)
        s1 == Read(s0, "Ctrl5Int2PadCtrl")
        ctrl5 == s1.got
        s2 == Read(s1, "Ctrl7")
        ctrl7 == With("Ctrl7", "interrupts_enable", s2.got, RouteEnable(val, ctrl5))
        s3 == Write(s2, "Ctrl4Int1PadCtrl",
                    BitsAt(regs["Ctrl4Int1PadCtrl"], 0, 3) + 8 * BitsAt(val, 3, 5))
        s4 == Write(s3, "Ctrl7", ctrl7)
    IN  SetterReturn("pin_int1_route_set", val, s4)
pin_int1_route_set(val, fault) ==
    LET s0 == Begin(fault)
        s1 == Read(s0, "Ctrl5Int2PadCtrl")
        ctrl5 == s1.got
        s2 == Read(s1, "Ctrl7")
        ctrl7 == With("Ctrl7", "interrupts_enable", s2.got, RouteEnable(val, ctrl5))
        s3 == Write(s2, "Ctrl4Int1PadCtrl", val)
        s4 == Write(s3, "Ctrl7", ctrl7)
    IN  SetterReturn("pin_int1_route_set", val, s4)

pin_int1_route_get(fault) ==
    LET s1 == Read(Begin(fault), "Ctrl4Int1PadCtrl")
    IN  GetterReturn("pin_int1_route_get", s1, Ok(s1.got))

pin_int2_route_set(val, fault) ==
    LET s0 == Begin(fault)
        s1 == Read(s0, "Ctrl4Int1PadCtrl")
        ctrl4 == s1.got
        s2 == Read(s1, "Ctrl7")
        ctrl7 == With("Ctrl7", "interrupts_enable", s2.got, RouteEnable(ctrl4, val))
        s3 == Write(s2, "Ctrl5Int2PadCtrl", val)
        s4 == Write(s3, "Ctrl7", ctrl7)
    IN  SetterReturn("pin_int2_route_set", val, s4)

pin_int2_route_get(fault) ==
    LET s1 == Read(Begin(fault), "Ctrl5Int2PadCtrl")
    IN  GetterReturn("pin_int2_route_get", s1, Ok(s1.got))

----------------------------------------------------------------------------
(* Enumerations: variant -> discriminant (#[repr(u8)]). *)

Mode ==
    "HighPerformance" :> 4 @@ "ContLowPwr4" :> 3 @@ "ContLowPwr3" :> 2 @@
    "ContLowPwr2" :> 1 @@ "ContLowPwr12bit" :> 0 @@ "SingleLowPwr4" :> 11 @@
    "SingleLowPwr3" :> 10 @@ "SingleLowPwr2" :> 9 @@
    "SingleLowPwr12bit" :> 8 @@ "HighPerformanceLowNoise" :> 20 @@
    "ContLowPwrLowNoise4" :> 19 @@ "ContLowPwrLowNoise3" :> 18 @@
    "ContLowPwrLowNoise2" :> 17 @@ "ContLowPwrLowNoise12bit" :> 16 @@
    "SingleLowPwrLowNoise4" :> 27 @@ "SingleLowPwrLowNoise3" :> 26 @@
    "SingleLowPwrLowNoise2" :> 25 @@ "SingleLowLowNoisePwr12bit" :> 24

Odr ==
    "Off" :> 0 @@ "_1_6hzLpOnly" :> 1 @@ "_12_5hz" :> 2 @@ "_25hz" :> 3 @@
    "_50hz" :> 4 @@ "_100hz" :> 5 @@ "_200hz" :> 6 @@ "_400hz" :> 7 @@
    "_800hz" :> 8 @@ "_1_6khz" :> 9 @@ "SetSwTrig" :> 18 @@
    "SetPinTrig" :> 34

Fds == "LpfOnOut" :> 0 @@ "UserOffsetOnOut" :> 1 @@ "HighPassOnOut" :> 16

SleepOn == "NoDetection" :> 0 @@ "ActInact" :> 1 @@ "StatMotion" :> 3

\* the enums that are one register field
FieldEnums ==
    [ Fs |-> "_2g" :> 0 @@ "_4g" :> 1 @@ "_8g" :> 2 @@ "_16g" :> 3,
      UsrOffW |-> "_977ugLsb" :> 0 @@ "_15_6mgLsb" :> 1,
      St |-> "Disable" :> 0 @@ "Positive" :> 1 @@ "Negative" :> 2,
      DrdyPulsed |-> "Latched" :> 0 @@ "Pulsed" :> 1,
      BwFilt |-> "OdrDiv2" :> 0 @@ "OdrDiv4" :> 1 @@ "OdrDiv10" :> 2 @@
                 "OdrDiv20" :> 3,
      Sim |-> "Spi4Wire" :> 0 @@ "Spi3Wire" :> 1,
      I2cDisable |-> "I2cEnable" :> 0 @@ "I2cDisable" :> 1,
      CsPuDisc |-> "PullUpConnect" :> 0 @@ "PullUpDisconnect" :> 1,
      HLactive |-> "ActiveHigh" :> 0 @@ "ActiveLow" :> 1,
      Lir |-> "Pulsed" :> 0 @@ "Latched" :> 1,
      PpOd |-> "PushPull" :> 0 @@ "OpenDrain" :> 1,
      UsrOffOnWu |-> "HpFeed" :> 0 @@ "UserOffsetFeed" :> 1,
      TapPrior |-> "Xyz" :> 0 @@ "Yxz" :> 1 @@ "Xzy" :> 2 @@ "Zyx" :> 3 @@
                   "Yzx" :> 5 @@ "Zxy" :> 6,
      SingleDoubleTap |-> "OnlySingle" :> 0 @@ "BothSingleDouble" :> 1,
      LpassOn6d |-> "OdrDiv2Feed" :> 0 @@ "Lpf2Feed" :> 1,
      FfThs |-> "_5Lsb" :> 0 @@ "_7Lsb" :> 1 @@ "_8Lsb" :> 2 @@
                "_10Lsb" :> 3 @@ "_11Lsb" :> 4 @@ "_13Lsb" :> 5 @@
                "_15Lsb" :> 6 @@ "_16Lsb" :> 7,
      Fmode |-> "BypassMode" :> 0 @@ "FifoMode" :> 1 @@
                "StreamToFifoMode" :> 3 @@ "BypassToStreamMode" :> 4 @@
                "StreamMode" :> 6 ]

Enums ==
    [n \in DOMAIN FieldEnums \cup {"Mode", "Odr", "Fds", "SleepOn"} |->
        CASE n = "Mode" -> Mode
          [] n = "Odr" -> Odr
          [] n = "Fds" -> Fds
          [] n = "SleepOn" -> SleepOn
          [] OTHER -> FieldEnums[n]]

\* the #[default] variant of each enum
Default ==
    [ Mode |-> "ContLowPwr12bit", Odr |-> "Off", Fds |-> "LpfOnOut",
      SleepOn |-> "NoDetection", Fs |-> "_2g", UsrOffW |-> "_977ugLsb",
      St |-> "Disable", DrdyPulsed |-> "Latched", BwFilt |-> "OdrDiv2",
      Sim |-> "Spi4Wire", I2cDisable |-> "I2cEnable",
      CsPuDisc |-> "PullUpConnect", HLactive |-> "ActiveHigh",
      Lir |-> "Pulsed", PpOd |-> "PushPull", UsrOffOnWu |-> "HpFeed",
      TapPrior |-> "Xyz", SingleDoubleTap |-> "OnlySingle",
      LpassOn6d |-> "OdrDiv2Feed", FfThs |-> "_5Lsb", Fmode |-> "BypassMode" ]

Variants(E) == DOMAIN Enums[E]

\* `v as u8`
AsU8(E, v) == Enums[E][v]

\* E::try_from(n).unwrap_or_default()
\* (faulty variant: always the variant of least discriminant)
TryFromOrDefaultMutantFirst(E, n) ==
    CHOOSE v \in Variants(E) : \A u \in Variants(E) : Enums[E][v] <= Enums[E][u]
TryFromOrDefault(E, n) ==
    IF \E v \in Variants(E) : Enums[E][v] = n
    THEN CHOOSE v \in Variants(E) : Enums[E][v] = n
    ELSE Default[E]

\* a u8 sum: its value in eight bits, and whether it overflowed them
Sum(n) == [val |-> n % 256, ovf |-> n > 255]

\* Mode::new and the accessors
ModeBits(mode, lp_mode, low_noise) ==
    Sum(Shl(low_noise, 4) + Shl(mode, 2) + lp_mode)
\* (faulty variant of new: mode and lp_mode change places)
Mode_newMutantSwapped(mode, lp_mode, low_noise) ==
    TryFromOrDefault("Mode", ModeBits(lp_mode, mode, low_noise).val)
Mode_new(mode, lp_mode, low_noise) ==
    TryFromOrDefault("Mode", ModeBits(mode, lp_mode, low_noise).val)
\* (faulty variant of mode(): the masked bits are not shifted down)
Mode_modeMutantNoShift(v) == BitsAt(AsU8("Mode", v), 2, 2) * 4
Mode_mode(v) == Shr(BitsAt(AsU8("Mode", v), 2, 2) * 4, 2)
Mode_lp_mode(v) == BitsAt(AsU8("Mode", v), 0, 2)
Mode_low_noise(v) == Shr(BitsAt(AsU8("Mode", v), 4, 1) * 16, 4)

\* Odr::new and the accessors
OdrBits(odr, slp_mode) == Sum(Shl(slp_mode, 4) + odr)
Odr_new(odr, slp_mode) == TryFromOrDefault("Odr", OdrBits(odr, slp_mode).val)
Odr_odr(v) == BitsAt(AsU8("Odr", v), 0, 4)
Odr_slp_mode(v) == Shr(BitsAt(AsU8("Odr", v), 4, 2) * 16, 4)

\* Fds::new and the accessors
FdsBits(fds, usr_off_on_out) == Sum(Shl(fds, 4) + usr_off_on_out)
Fds_new(fds, usr_off_on_out) ==
    TryFromOrDefault("Fds", FdsBits(fds, usr_off_on_out).val)
Fds_fds(v) == Shr(BitsAt(AsU8("Fds", v), 4, 1) * 16, 4)
Fds_usr_off_on_out(v) == BitsAt(AsU8("Fds", v), 0, 1)

\* SleepOn::new and the accessors
SleepOnBits(sleep_on, stationary) == Sum(Shl(stationary, 1) + sleep_on)
SleepOn_new(sleep_on, stationary) ==
    TryFromOrDefault("SleepOn", SleepOnBits(sleep_on, stationary).val)
SleepOn_sleep_on(v) == BitsAt(AsU8("SleepOn", v), 0, 1)
SleepOn_stationary(v) == Shr(BitsAt(AsU8("SleepOn", v), 1, 1) * 2, 1)

\* Ok(v) of a value computed with a u8 sum
OkSum(v, sum) == [Ok(v) EXCEPT !.ovf = sum.ovf]

----------------------------------------------------------------------------
(* Operations on one field of one register. *)

A(r, f, ty) == [reg |-> r, field |-> f, ty |-> ty]

\* the setters that read a register, set one field and write it back; ty is
\* the argument: a raw u8, an enum cast with `as u8`, or none ("enable": the
\* field is set to PROPERTY_ENABLE)
FieldSetters ==
    [
      block_data_update_set |-> A("Ctrl2", "bdu", "u8"),
      full_scale_set |-> A("Ctrl6", "fs", "Fs"),
      offset_weight_set |-> A("Ctrl7", "usr_off_w", "UsrOffW"),
      auto_increment_set |-> A("Ctrl2", "if_add_inc", "u8"),
      reset_set |-> A("Ctrl2", "soft_reset", "enable"),
      boot_set |-> A("Ctrl2", "boot", "enable"),
      self_test_set |-> A("Ctrl3", "st", "St"),
      data_ready_mode_set |-> A("Ctrl7", "drdy_pulsed", "DrdyPulsed"),
      filter_bandwidth_set |-> A("Ctrl6", "bw_filt", "BwFilt"),
      reference_mode_set |-> A("Ctrl7", "hp_ref_mode", "u8"),
      spi_mode_set |-> A("Ctrl2", "sim", "Sim"),
      i2c_interface_set |-> A("Ctrl2", "i2c_disable", "I2cDisable"),
      cs_mode_set |-> A("Ctrl2", "cs_pu_disc", "CsPuDisc"),
      pin_polarity_set |-> A("Ctrl3", "h_lactive", "HLactive"),
      int_notification_set |-> A("Ctrl3", "lir", "Lir"),
      pin_mode_set |-> A("Ctrl3", "pp_od", "PpOd"),
      all_on_int1_set |-> A("Ctrl7", "int2_on_int1", "u8"),
      wkup_threshold_set |-> A("WakeUpThs", "wk_ths", "u8"),
      wkup_dur_set |-> A("WakeUpDur", "wake_dur", "u8"),
      wkup_feed_data_set |-> A("Ctrl7", "usr_off_on_wu", "UsrOffOnWu"),
      act_sleep_dur_set |-> A("WakeUpDur", "sleep_dur", "u8"),
      tap_threshold_x_set |-> A("TapThsX", "tap_thsx", "u8"),
      tap_threshold_y_set |-> A("TapThsY", "tap_thsy", "u8"),
      tap_axis_priority_set |-> A("TapThsY", "tap_prior", "TapPrior"),
      tap_threshold_z_set |-> A("TapThsZ", "tap_thsz", "u8"),
      tap_detection_on_z_set |-> A("TapThsZ", "tap_z_en", "u8"),
      tap_detection_on_y_set |-> A("TapThsZ", "tap_y_en", "u8"),
      tap_detection_on_x_set |-> A("TapThsZ", "tap_x_en", "u8"),
      tap_shock_set |-> A("IntDur", "shock", "u8"),
      tap_quiet_set |-> A("IntDur", "quiet", "u8"),
      tap_dur_set |-> A("IntDur", "latency", "u8"),
      tap_mode_set |-> A("WakeUpThs", "single_double_tap", "SingleDoubleTap"),
      sixd_threshold_set |-> A("TapThsX", "six_d_ths", "u8"),
      fourd_mode_set |-> A("TapThsX", "four_d_en", "u8"),
      sixd_feed_data_set |-> A("Ctrl7", "lpass_on6d", "LpassOn6d"),
      ff_threshold_set |-> A("FreeFall", "ff_ths", "FfThs"),
      fifo_watermark_set |-> A("FifoCtrl", "fth", "u8"),
      fifo_mode_set |-> A("FifoCtrl", "fmode", "Fmode") ]

\* the getters that read a register and return one field: as the raw u8, or
\* through try_from(..).unwrap_or_default()
FieldGetters ==
    [
      block_data_update_get |-> A("Ctrl2", "bdu", "u8"),
      full_scale_get |-> A("Ctrl6", "fs", "Fs"),
      offset_weight_get |-> A("Ctrl7", "usr_off_w", "UsrOffW"),
      auto_increment_get |-> A("Ctrl2", "if_add_inc", "u8"),
      reset_get |-> A("Ctrl2", "soft_reset", "u8"),
      boot_get |-> A("Ctrl2", "boot", "u8"),
      self_test_get |-> A("Ctrl3", "st", "St"),
      data_ready_mode_get |-> A("Ctrl7", "drdy_pulsed", "DrdyPulsed"),
      filter_bandwidth_get |-> A("Ctrl6", "bw_filt", "BwFilt"),
      reference_mode_get |-> A("Ctrl7", "hp_ref_mode", "u8"),
      spi_mode_get |-> A("Ctrl2", "sim", "Sim"),
      i2c_interface_get |-> A("Ctrl2", "i2c_disable", "I2cDisable"),
      cs_mode_get |-> A("Ctrl2", "cs_pu_disc", "CsPuDisc"),
      pin_polarity_get |-> A("Ctrl3", "h_lactive", "HLactive"),
      int_notification_get |-> A("Ctrl3", "lir", "Lir"),
      pin_mode_get |-> A("Ctrl3", "pp_od", "PpOd"),
      all_on_int1_get |-> A("Ctrl7", "int2_on_int1", "u8"),
      wkup_threshold_get |-> A("WakeUpThs", "wk_ths", "u8"),
      wkup_dur_get |-> A("WakeUpDur", "wake_dur", "u8"),
      wkup_feed_data_get |-> A("Ctrl7", "usr_off_on_wu", "UsrOffOnWu"),
      act_sleep_dur_get |-> A("WakeUpDur", "sleep_dur", "u8"),
      tap_threshold_x_get |-> A("TapThsX", "tap_thsx", "u8"),
      tap_threshold_y_get |-> A("TapThsY", "tap_thsy", "u8"),
      tap_axis_priority_get |-> A("TapThsY", "tap_prior", "TapPrior"),
      tap_threshold_z_get |-> A("TapThsZ", "tap_thsz", "u8"),
      tap_detection_on_z_get |-> A("TapThsZ", "tap_z_en", "u8"),
      tap_detection_on_y_get |-> A("TapThsZ", "tap_y_en", "u8"),
      tap_detection_on_x_get |-> A("TapThsZ", "tap_x_en", "u8"),
      tap_shock_get |-> A("IntDur", "shock", "u8"),
      tap_quiet_get |-> A("IntDur", "quiet", "u8"),
      tap_dur_get |-> A("IntDur", "latency", "u8"),
      tap_mode_get |-> A("WakeUpThs", "single_double_tap", "SingleDoubleTap"),
      sixd_threshold_get |-> A("TapThsX", "six_d_ths", "u8"),
      fourd_mode_get |-> A("TapThsX", "four_d_en", "u8"),
      sixd_feed_data_get |-> A("Ctrl7", "lpass_on6d", "LpassOn6d"),
      ff_threshold_get |-> A("FreeFall", "ff_ths", "FfThs"),
      fifo_watermark_get |-> A("FifoCtrl", "fth", "u8"),
      fifo_mode_get |-> A("FifoCtrl", "fmode", "Fmode"),
      flag_data_ready_get |-> A("Status", "drdy", "u8"),
      fifo_data_level_get |-> A("FifoSamples", "diff", "u8"),
      fifo_ovr_flag_get |-> A("FifoSamples", "fifo_ovr", "u8"),
      fifo_wtm_flag_get |-> A("FifoSamples", "fifo_fth", "u8") ]

\* what a field setter passes to set_<field>
FieldArg(ty, val) ==
    CASE ty = "u8" -> val
      [] ty = "enable" -> PROPERTY_ENABLE
      [] OTHER -> AsU8(ty, val)

\* what a field getter makes of the field's bits
\* (faulty variant: an encoding of no variant is an error)
FieldResultMutantErr(ty, bits) ==
    IF ty = "u8" \/ \E v \in Variants(ty) : Enums[ty][v] = bits
    THEN Ok(IF ty = "u8" THEN bits ELSE TryFromOrDefault(ty, bits))
    ELSE [tag |-> "Err", val |-> "none", kind |-> "UnexpectedValue",
          cause |-> "none", ovf |-> FALSE]
FieldResult(ty, bits) ==
    Ok(IF ty = "u8" THEN bits ELSE TryFromOrDefault(ty, bits))

\* the call does not return: set_<field> asserts its bounds in a build with
\* debug assertions, after the register was read and before any write
Panic(name, a, s) ==
    /\ regs' = s.regs
    /\ pre' = regs
    /\ op' = name
    /\ arg' = a
    /\ log' = s.log
    /\ ret' = [tag |-> "Panic", val |-> "none", kind |-> "none",
               cause |-> "none", ovf |-> FALSE]
    /\ prev' = [op |-> op, arg |-> arg, tag |-> ret.tag]
    /\ last' = last

\* (faulty variant of field_set: the register is written from a byte the
\* driver did not read in this call)
field_setMutantNoRead(name, val, fault) ==
    LET d == FieldSetters[name]
        reg == With(d.reg, d.field, regs[d.reg], FieldArg(d.ty, val))
        s1 == Write(Begin(fault), d.reg, reg)
    IN  SetterReturn(name, val, s1)

\* A value that does not fit the field has two outcomes, one per build
\* profile: without debug assertions set_<field> keeps the low bits, with
\* them it panics.
field_set(name, val, fault) ==
    LET d == FieldSetters[name]
        s1 == Read(Begin(fault), d.reg)
        reg == With(d.reg, d.field, s1.got, FieldArg(d.ty, val))
        s2 == Write(s1, d.reg, reg)
    IN  \/ SetterReturn(name, val, s2)
        \/ /\ s1.err = NoError
           /\ FieldArg(d.ty, val) >= Pow2(Width(d.reg, d.field))
           /\ Panic(name, val, s1)

field_get(name, fault) ==
    LET d == FieldGetters[name]
        s1 == Read(Begin(fault), d.reg)
    IN  GetterReturn(name, s1, FieldResult(d.ty, Get(d.reg, d.field, s1.got)))

\* in-width arguments of a raw u8 setter of a w-bit field: smallest, one,
\* top bit alone, largest
InWidth(w) == {0, 1, Pow2(w - 1), Pow2(w) - 1}

\* the argument of a field setter that sets every bit of its field, or the
\* variant of greatest discriminant
TopArgs(name) ==
    LET d == FieldSetters[name]
    IN  CASE d.ty = "u8" -> {Pow2(Width(d.reg, d.field)) - 1}
          [] d.ty = "enable" -> {"none"}
          [] OTHER -> {v \in Variants(d.ty) :
                          \A u \in Variants(d.ty) : Enums[d.ty][u] <= Enums[d.ty][v]}

\* the arguments a field setter is called with
FieldArgs(name) ==
    LET d == FieldSetters[name]
    IN  CASE d.ty = "u8" -> InWidth(Width(d.reg, d.field))
          [] d.ty = "enable" -> {"none"}
          [] OTHER -> Variants(d.ty)

----------------------------------------------------------------------------
(* Settings held in two registers. *)

power_mode_set(val, fault) ==
    LET s1 == Read(Begin(fault), "Ctrl1")
        ctrl1 == With("Ctrl1", "lp_mode",
                      With("Ctrl1", "mode", s1.got, Mode_mode(val)),
                      Mode_lp_mode(val))
        s2 == Write(s1, "Ctrl1", ctrl1)
        s3 == Read(s2, "Ctrl6")
        ctrl6 == With("Ctrl6", "low_noise", s3.got, Mode_low_noise(val))
        s4 == Write(s3, "Ctrl6", ctrl6)
    IN  SetterReturn("power_mode_set", val, s4)

power_mode_get(fault) ==
    LET s1 == Read(Begin(fault), "Ctrl1")
        ctrl1 == s1.got
        s2 == Read(s1, "Ctrl6")
        ctrl6 == s2.got
        mode == Get("Ctrl1", "mode", ctrl1)
        lp_mode == Get("Ctrl1", "lp_mode", ctrl1)
        low_noise == Get("Ctrl6", "low_noise", ctrl6)
    IN  GetterReturn("power_mode_get", s2,
                     OkSum(Mode_new(mode, lp_mode, low_noise),
                           ModeBits(mode, lp_mode, low_noise)))

data_rate_set(val, fault) ==
    LET s1 == Read(Begin(fault), "Ctrl1")
        ctrl1 == With("Ctrl1", "odr", s1.got, Odr_odr(val))
        s2 == Write(s1, "Ctrl1", ctrl1)
        s3 == Read(s2, "Ctrl3")
        ctrl3 == With("Ctrl3", "slp_mode", s3.got, Odr_slp_mode(val))
        s4 == Write(s3, "Ctrl3", ctrl3)
    IN  SetterReturn("data_rate_set", val, s4)

data_rate_get(fault) ==
    LET s1 == Read(Begin(fault), "Ctrl1")
        ctrl1 == s1.got
        s2 == Read(s1, "Ctrl3")
        ctrl3 == s2.got
        odr == Get("Ctrl1", "odr", ctrl1)
        slp_mode == Get("Ctrl3", "slp_mode", ctrl3)
    IN  GetterReturn("data_rate_get", s2,
                     OkSum(Odr_new(odr, slp_mode), OdrBits(odr, slp_mode)))

filter_path_set(val, fault) ==
    LET s1 == Read(Begin(fault), "Ctrl6")
        ctrl6 == With("Ctrl6", "fds", s1.got, Fds_fds(val))
        s2 == Write(s1, "Ctrl6", ctrl6)
        s3 == Read(s2, "Ctrl7")
        ctrl7 == With("Ctrl7", "usr_off_on_out", s3.got, Fds_usr_off_on_out(val))
        s4 == Write(s3, "Ctrl7", ctrl7)
    IN  SetterReturn("filter_path_set", val, s4)

filter_path_get(fault) ==
    LET s1 == Read(Begin(fault), "Ctrl6")
        ctrl6 == s1.got
        s2 == Read(s1, "Ctrl7")
        ctrl7 == s2.got
        fds == Get("Ctrl6", "fds", ctrl6)
        usr_off_on_out == Get("Ctrl7", "usr_off_on_out", ctrl7)
    IN  GetterReturn("filter_path_get", s2,
                     OkSum(Fds_new(fds, usr_off_on_out),
                           FdsBits(fds, usr_off_on_out)))

\* (faulty variant: WAKE_UP_THS is written before WAKE_UP_DUR is read)
act_mode_setMutantInterleaved(val, fault) ==
    LET s1 == Read(Begin(fault), "WakeUpThs")
        wake_up_ths == With("WakeUpThs", "sleep_on", s1.got, SleepOn_sleep_on(val))
        s2 == Write(s1, "WakeUpThs", wake_up_ths)
        s3 == Read(s2, "WakeUpDur")
        wake_up_dur == With("WakeUpDur", "stationary", s3.got,
                            SleepOn_stationary(val))
        s4 == Write(s3, "WakeUpDur", wake_up_dur)
    IN  SetterReturn("act_mode_set", val, s4)
act_mode_set(val, fault) ==
    LET s1 == Read(Begin(fault), "WakeUpThs")
        s2 == Read(s1, "WakeUpDur")
        wake_up_ths == With("WakeUpThs", "sleep_on", s1.got, SleepOn_sleep_on(val))
        wake_up_dur == With("WakeUpDur", "stationary", s2.got,
                            SleepOn_stationary(val))
        s3 == Write(s2, "WakeUpThs", wake_up_ths)
        s4 == Write(s3, "WakeUpDur", wake_up_dur)
    IN  SetterReturn("act_mode_set", val, s4)

act_mode_get(fault) ==
    LET s1 == Read(Begin(fault), "WakeUpThs")
        wake_up_ths == s1.got
        s2 == Read(s1, "WakeUpDur")
        wake_up_dur == s2.got
        sleep_on == Get("WakeUpThs", "sleep_on", wake_up_ths)
        stationary == Get("WakeUpDur", "stationary", wake_up_dur)
    IN  GetterReturn("act_mode_get", s2,
                     OkSum(SleepOn_new(sleep_on, stationary),
                           SleepOnBits(sleep_on, stationary)))

ff_dur_set(val, fault) ==
    LET s1 == Read(Begin(fault), "WakeUpDur")
        s2 == Read(s1, "FreeFall")
        wake_up_dur == With("WakeUpDur", "ff_dur", s1.got,
                            Shr(BitsAt(val, 5, 1) * 32, 5))
        free_fall == With("FreeFall", "ff_dur", s2.got, BitsAt(val, 0, 5))
        s3 == Write(s2, "WakeUpDur", wake_up_dur)
        s4 == Write(s3, "FreeFall", free_fall)
    IN  SetterReturn("ff_dur_set", val, s4)

\* (faulty variant: the high bit is put at bit 4)
FfDurBitsMutantShift4(hi, lo) == Sum(Shl(hi, 4) + lo)
FfDurBits(hi, lo) == Sum(Shl(hi, 5) + lo)

ff_dur_get(fault) ==
    LET s1 == Read(Begin(fault), "WakeUpDur")
        wake_up_dur == s1.got
        s2 == Read(s1, "FreeFall")
        free_fall == s2.got
        sum == FfDurBits(Get("WakeUpDur", "ff_dur", wake_up_dur),
                         Get("FreeFall", "ff_dur", free_fall))
    IN  GetterReturn("ff_dur_get", s2, OkSum(sum.val, sum))

----------------------------------------------------------------------------
(* Status, source, identity, offset and sample operations. *)

\* the getters that return a whole one-byte register struct
StructGetters ==
    [ status_reg_get |-> "Status", tap_src_get |-> "TapSrc",
      sixd_src_get |-> "SixdSrc" ]

struct_get(name, fault) ==
    LET s1 == Read(Begin(fault), StructGetters[name])
    IN  GetterReturn(name, s1, Ok(s1.got))

all_sources_get(fault) ==
    LET s1 == Read(Begin(fault), "StatusDup")
        s2 == Read(s1, "WakeUpSrc")
        s3 == Read(s2, "TapSrc")
        s4 == Read(s3, "SixdSrc")
        s5 == Read(s4, "AllIntSrc")
    IN  GetterReturn("all_sources_get", s5,
                     Ok([status_dup |-> s1.got, wake_up_src |-> s2.got,
                         tap_src |-> s3.got, sixd_src |-> s4.got,
                         all_int_src |-> s5.got]))

\* the value WHO_AM_I holds on an IIS2DLPC
ID == 68

\* (faulty variant: a byte other than ID is refused with WhoAmIError)
device_id_getMutantChecked(fault) ==
    LET s1 == Read(Begin(fault), "WhoAmI")
    IN  GetterReturn("device_id_get", s1,
                     IF s1.got = ID THEN Ok(s1.got)
                     ELSE [tag |-> "Err", val |-> "none", kind |-> "WhoAmIError",
                           cause |-> "none", ovf |-> FALSE])
device_id_get(fault) ==
    LET s1 == Read(Begin(fault), "WhoAmI")
    IN  GetterReturn("device_id_get", s1, Ok(s1.got))

\* the user offset registers, one signed byte each
UsrOffsetSetters ==
    [ usr_offset_x_set |-> "XOfsUsr", usr_offset_y_set |-> "YOfsUsr",
      usr_offset_z_set |-> "ZOfsUsr" ]
UsrOffsetGetters ==
    [ usr_offset_x_get |-> "XOfsUsr", usr_offset_y_get |-> "YOfsUsr",
      usr_offset_z_get |-> "ZOfsUsr" ]

usr_offset_set(name, val, fault) ==
    LET s1 == Write(Begin(fault), UsrOffsetSetters[name], Unsigned(val, 8))
    IN  SetterReturn(name, val, s1)

usr_offset_get(name, fault) ==
    LET s1 == Read(Begin(fault), UsrOffsetGetters[name])
    IN  GetterReturn(name, s1, Ok(Signed(s1.got, 8)))

temperature_raw_get(fault) ==
    LET s1 == ReadWord(Begin(fault), "OutT")
    IN  GetterReturn("temperature_raw_get", s1,
                     Ok(Signed(BitsAt(s1.got, 4, 12), 12)))

acceleration_raw_get(fault) ==
    LET s1 == ReadWord(Begin(fault), "OutX")
        s2 == ReadWord(s1, "OutY")
        s3 == ReadWord(s2, "OutZ")
    IN  GetterReturn("acceleration_raw_get", s3,
                     Ok(<< Signed(BitsAt(s1.got, 2, 14), 14),
                           Signed(BitsAt(s2.got, 2, 14), 14),
                           Signed(BitsAt(s3.got, 2, 14), 14) >>))

----------------------------------------------------------------------------
(* Start of a behaviour: a device whose registers hold `content`. *)

NoLast == [n \in {} |-> 0]

Start(content) ==
    /\ regs = content
    /\ pre = content
    /\ op = "none"
    /\ arg = "none"
    /\ log = << >>
    /\ ret = Ok("unit")
    /\ last = NoLast
    /\ prev = [op |-> "none", arg |-> "none", tag |-> "Ok"]
    /\ calls = 0

PowerOn == [r \in RegNames |-> ResetValue(r)]

\* did the last call succeed / fail
Succeeded(name) == op = name /\ ret.tag = "Ok"
Failed(name) == op = name /\ ret.tag = "Err"

----------------------------------------------------------------------------
(* Routing specification: the two pad registers hold arbitrary routing     *)
(* bytes (no enable bit, or any single one), CTRL7 is all zeros or all     *)
(* ones, and the routing operations are called.                            *)

PadBytes == {0} \cup {Pow2(i) : i \in 0 .. 7}
Ctrl7Bytes == {0, 255}

\* the caller makes one more call
OneMoreCall(max) == calls < max /\ calls' = calls + 1

InitRoute ==
    \E c4 \in PadBytes, c5 \in PadBytes, c7 \in Ctrl7Bytes :
        Start([PowerOn EXCEPT !["Ctrl4Int1PadCtrl"] = c4,
                              !["Ctrl5Int2PadCtrl"] = c5,
                              !["Ctrl7"] = c7])

NextRoute ==
    /\ OneMoreCall(MaxCalls)
    /\ \/ \E val \in PadBytes, fault \in Faults(4, BusErrors) : pin_int1_route_set(val, fault)
       \/ \E val \in PadBytes, fault \in Faults(4, BusErrors) : pin_int2_route_set(val, fault)
       \/ \E fault \in Faults(1, BusErrors) : pin_int1_route_get(fault)
       \/ \E fault \in Faults(1, BusErrors) : pin_int2_route_get(fault)

SpecRoute == InitRoute /\ [][NextRoute]_vars

----------------------------------------------------------------------------
(* Register contents a behaviour starts from.  The device may hold any      *)
(* bytes when the driver is attached; the checked ones are bit patterns     *)
(* that put each field at its extremes and at mixed values, and registers   *)
(* at even and at odd addresses hold different bytes.                       *)

FewBytes == {0, 255, 85, 170}
SomeBytes == FewBytes \cup {15, 240, 51, 204}
ManyBytes == SomeBytes \cup {165, 90, 153, 102, 60, 195, 4, 128}

Preloaded(a, b) == [r \in RegNames |-> IF Reg[r] % 2 = 0 THEN a ELSE b]

\* a transport that reports one kind of error, or none at all
OneCause == {"Nack"}
Reliable == {NoFault}

\* a function computed without the bus returns
PureReturn(name, a, v) ==
    /\ Return(name, a, Begin(NoFault), v)
    /\ last' = last

----------------------------------------------------------------------------
(* Single-field specification: any single-field setter or getter is called  *)
(* on a preloaded device; the bus may fail at any transaction.              *)

InitField == \E a \in ManyBytes : Start(Preloaded(a, 255 - a))

NextField ==
    /\ OneMoreCall(MaxCalls)
    /\ \/ \E name \in DOMAIN FieldSetters :
            \E val \in FieldArgs(name), fault \in Faults(2, OneCause) :
                field_set(name, val, fault)
       \/ \E name \in DOMAIN FieldGetters, fault \in Faults(1, OneCause) :
            field_get(name, fault)

SpecField == InitField /\ [][NextField]_vars

----------------------------------------------------------------------------
(* Enum specification: the constructors and accessors of the composite      *)
(* enums, called as pure functions.                                         *)

\* E::new(v.<first>(), v.<second>(), ..) of a variant v
Mode_repack(v) ==
    PureReturn("Mode_repack", v,
               OkSum(Mode_new(Mode_mode(v), Mode_lp_mode(v), Mode_low_noise(v)),
                     ModeBits(Mode_mode(v), Mode_lp_mode(v), Mode_low_noise(v))))
Odr_repack(v) ==
    PureReturn("Odr_repack", v,
               OkSum(Odr_new(Odr_odr(v), Odr_slp_mode(v)),
                     OdrBits(Odr_odr(v), Odr_slp_mode(v))))
Fds_repack(v) ==
    PureReturn("Fds_repack", v,
               OkSum(Fds_new(Fds_fds(v), Fds_usr_off_on_out(v)),
                     FdsBits(Fds_fds(v), Fds_usr_off_on_out(v))))
SleepOn_repack(v) ==
    PureReturn("SleepOn_repack", v,
               OkSum(SleepOn_new(SleepOn_sleep_on(v), SleepOn_stationary(v)),
                     SleepOnBits(SleepOn_sleep_on(v), SleepOn_stationary(v))))

\* E::new on sub-field values as the registers can hold them
Mode_new_call(mode, lp_mode, low_noise) ==
    PureReturn("Mode_new", << mode, lp_mode, low_noise >>,
               OkSum(Mode_new(mode, lp_mode, low_noise),
                     ModeBits(mode, lp_mode, low_noise)))
Odr_new_call(odr, slp_mode) ==
    PureReturn("Odr_new", << odr, slp_mode >>,
               OkSum(Odr_new(odr, slp_mode), OdrBits(odr, slp_mode)))
Fds_new_call(fds, usr_off_on_out) ==
    PureReturn("Fds_new", << fds, usr_off_on_out >>,
               OkSum(Fds_new(fds, usr_off_on_out), FdsBits(fds, usr_off_on_out)))
SleepOn_new_call(sleep_on, stationary) ==
    PureReturn("SleepOn_new", << sleep_on, stationary >>,
               OkSum(SleepOn_new(sleep_on, stationary),
                     SleepOnBits(sleep_on, stationary)))

InitEnum == Start(PowerOn)

NextEnum ==
    /\ OneMoreCall(MaxCalls)
    /\ \/ \E v \in Variants("Mode") : Mode_repack(v)
       \/ \E v \in Variants("Odr") : Odr_repack(v)
       \/ \E v \in Variants("Fds") : Fds_repack(v)
       \/ \E v \in Variants("SleepOn") : SleepOn_repack(v)
       \/ \E mode \in 0 .. 3, lp_mode \in 0 .. 3, low_noise \in 0 .. 1 :
            Mode_new_call(mode, lp_mode, low_noise)
       \/ \E odr \in 0 .. 15, slp_mode \in 0 .. 3 : Odr_new_call(odr, slp_mode)
       \/ \E fds \in 0 .. 1, usr_off_on_out \in 0 .. 1 :
            Fds_new_call(fds, usr_off_on_out)
       \/ \E sleep_on \in 0 .. 1, stationary \in 0 .. 1 :
            SleepOn_new_call(sleep_on, stationary)

SpecEnum == InitEnum /\ [][NextEnum]_vars

----------------------------------------------------------------------------
(* Composite specification: the settings held in two registers are set and  *)
(* read back, in any order, on a preloaded device over a bus that does not  *)
(* fail (failing calls are the subject of the bus specification).           *)

InitComposite == \E a \in ManyBytes : Start(Preloaded(a, 255 - a))

NextComposite ==
    /\ OneMoreCall(MaxChain)
    /\ \/ \E val \in Variants("Mode"), fault \in Reliable :
            power_mode_set(val, fault)
       \/ \E fault \in Reliable : power_mode_get(fault)
       \/ \E val \in Variants("Odr"), fault \in Reliable :
            data_rate_set(val, fault)
       \/ \E fault \in Reliable : data_rate_get(fault)
       \/ \E val \in Variants("Fds"), fault \in Reliable :
            filter_path_set(val, fault)
       \/ \E fault \in Reliable : filter_path_get(fault)
       \/ \E val \in Variants("SleepOn"), fault \in Reliable :
            act_mode_set(val, fault)
       \/ \E fault \in Reliable : act_mode_get(fault)

SpecComposite == InitComposite /\ [][NextComposite]_vars

----------------------------------------------------------------------------
(* Getter specification: every getter that decodes an enum, or returns a    *)
(* field, is called on a device whose even- and odd-address registers hold  *)
(* independent bytes; the bus may fail at any transaction.                  *)

InitGet == \E a \in ManyBytes, b \in ManyBytes : Start(Preloaded(a, b))

NextGet ==
    /\ OneMoreCall(MaxCalls)
    /\ \/ \E name \in DOMAIN FieldGetters, fault \in Faults(1, OneCause) :
            field_get(name, fault)
       \/ \E fault \in Faults(2, OneCause) : power_mode_get(fault)
       \/ \E fault \in Faults(2, OneCause) : data_rate_get(fault)
       \/ \E fault \in Faults(2, OneCause) : filter_path_get(fault)
       \/ \E fault \in Faults(2, OneCause) : act_mode_get(fault)

SpecGet == InitGet /\ [][NextGet]_vars

----------------------------------------------------------------------------
(* Bus specification: any driver operation is called once on a preloaded    *)
(* device over a transport that may fail, with either of two errors, at     *)
(* any transaction of the call.                                             *)

\* i8 arguments of the user offset setters
OffsetArgs == {-128, -1, 0, 1, 127}

InitBus == \E a \in FewBytes : Start(Preloaded(a, 255 - a))

NextBus ==
    /\ OneMoreCall(MaxCalls)
    /\ \/ \E name \in DOMAIN FieldSetters :
            \E val \in TopArgs(name), fault \in Faults(2, BusErrors) :
                field_set(name, val, fault)
       \/ \E name \in DOMAIN FieldGetters, fault \in Faults(1, BusErrors) :
            field_get(name, fault)
       \/ \E val \in Variants("Mode"), fault \in Faults(4, BusErrors) :
            power_mode_set(val, fault)
       \/ \E fault \in Faults(2, BusErrors) : power_mode_get(fault)
       \/ \E val \in Variants("Odr"), fault \in Faults(4, BusErrors) :
            data_rate_set(val, fault)
       \/ \E fault \in Faults(2, BusErrors) : data_rate_get(fault)
       \/ \E val \in Variants("Fds"), fault \in Faults(4, BusErrors) :
            filter_path_set(val, fault)
       \/ \E fault \in Faults(2, BusErrors) : filter_path_get(fault)
       \/ \E val \in Variants("SleepOn"), fault \in Faults(4, BusErrors) :
            act_mode_set(val, fault)
       \/ \E fault \in Faults(2, BusErrors) : act_mode_get(fault)
       \/ \E val \in FewBytes, fault \in Faults(4, BusErrors) :
            ff_dur_set(val, fault)
       \/ \E fault \in Faults(2, BusErrors) : ff_dur_get(fault)
       \/ \E val \in FewBytes, fault \in Faults(4, BusErrors) :
            pin_int1_route_set(val, fault)
       \/ \E fault \in Faults(1, BusErrors) : pin_int1_route_get(fault)
       \/ \E val \in FewBytes, fault \in Faults(4, BusErrors) :
            pin_int2_route_set(val, fault)
       \/ \E fault \in Faults(1, BusErrors) : pin_int2_route_get(fault)
       \/ \E name \in DOMAIN StructGetters, fault \in Faults(1, BusErrors) :
            struct_get(name, fault)
       \/ \E fault \in Faults(5, BusErrors) : all_sources_get(fault)
       \/ \E fault \in Faults(1, BusErrors) : device_id_get(fault)
       \/ \E name \in DOMAIN UsrOffsetSetters, val \in OffsetArgs,
              fault \in Faults(1, BusErrors) :
            usr_offset_set(name, val, fault)
       \/ \E name \in DOMAIN UsrOffsetGetters, fault \in Faults(1, BusErrors) :
            usr_offset_get(name, fault)
       \/ \E fault \in Faults(1, BusErrors) : temperature_raw_get(fault)
       \/ \E fault \in Faults(3, BusErrors) : acceleration_raw_get(fault)

SpecBus == InitBus /\ [][NextBus]_vars

----------------------------------------------------------------------------
(* Free-fall duration specification: ff_dur_set with every u8 argument and  *)
(* ff_dur_get on a preloaded device over a bus that does not fail.          *)

InitFfDur == \E a \in SomeBytes : Start(Preloaded(a, 255 - a))

NextFfDur ==
    /\ OneMoreCall(MaxChain)
    /\ \/ \E val \in Byte, fault \in Reliable : ff_dur_set(val, fault)
       \/ \E fault \in Reliable : ff_dur_get(fault)

SpecFfDur == InitFfDur /\ [][NextFfDur]_vars

----------------------------------------------------------------------------
(* FIFO specification: watermark and mode are set and read in any order on  *)
(* a preloaded device over a bus that does not fail.                        *)

InitFifo == \E a \in FewBytes : Start(Preloaded(a, 255 - a))

NextFifo ==
    /\ OneMoreCall(MaxFifoCalls)
    /\ \/ \E val \in 0 .. 31, fault \in Reliable :
            field_set("fifo_watermark_set", val, fault)
       \/ \E val \in Variants("Fmode"), fault \in Reliable :
            field_set("fifo_mode_set", val, fault)
       \/ \E fault \in Reliable : field_get("fifo_watermark_get", fault)
       \/ \E fault \in Reliable : field_get("fifo_mode_get", fault)

SpecFifo == InitFifo /\ [][NextFifo]_vars

----------------------------------------------------------------------------
(* Sample specification: the raw temperature and acceleration getters are   *)
(* called on a device whose output registers hold any of the preloaded low  *)
(* and high bytes; the bus may fail at any transaction.                     *)

NextSample ==
    /\ OneMoreCall(MaxCalls)
    /\ \/ \E fault \in Faults(1, OneCause) : temperature_raw_get(fault)
       \/ \E fault \in Faults(3, OneCause) : acceleration_raw_get(fault)

SpecSample == InitGet /\ [][NextSample]_vars

----------------------------------------------------------------------------
(* Raw specification: a raw u8 setter of a field narrower than a byte is    *)
(* called with any byte on a bus that does not fail.                        *)

RawSetters ==
    {name \in DOMAIN FieldSetters :
        /\ FieldSetters[name].ty = "u8"
        /\ Width(FieldSetters[name].reg, FieldSetters[name].field) < 8}

NextRaw ==
    /\ OneMoreCall(MaxCalls)
    /\ \E name \in RawSetters, val \in Byte, fault \in Reliable :
            field_set(name, val, fault)

SpecRaw == InitBus /\ [][NextRaw]_vars

----------------------------------------------------------------------------
(* Device specification: setters and getters are called on a bus that does  *)
(* not fail, and between calls the device may change its registers by       *)
(* itself: a software reset restores the defaults, or its registers take    *)
(* another content.  The driver object (bus, tim) holds nothing else.       *)

\* the device changes its registers; no driver call is involved
device_change ==
    /\ \E content \in {PowerOn, Preloaded(85, 170)} :
            /\ content # regs
            /\ regs' = content
    /\ op' = "device_change"
    /\ arg' = "none"
    /\ UNCHANGED << pre, log, ret, last, prev, calls >>

NextDevice ==
    \/ /\ OneMoreCall(MaxChain)
       /\ \/ \E name \in DOMAIN FieldSetters :
                \E val \in TopArgs(name), fault \in Reliable :
                    field_set(name, val, fault)
          \/ \E name \in DOMAIN FieldGetters, fault \in Reliable :
                field_get(name, fault)
          \/ \E val \in Variants("Mode"), fault \in Reliable : power_mode_set(val, fault)
          \/ \E fault \in Reliable : power_mode_get(fault)
          \/ \E val \in Variants("Odr"), fault \in Reliable : data_rate_set(val, fault)
          \/ \E fault \in Reliable : data_rate_get(fault)
          \/ \E val \in Variants("Fds"), fault \in Reliable : filter_path_set(val, fault)
          \/ \E fault \in Reliable : filter_path_get(fault)
          \/ \E val \in Variants("SleepOn"), fault \in Reliable : act_mode_set(val, fault)
          \/ \E fault \in Reliable : act_mode_get(fault)
          \/ \E fault \in Reliable : device_id_get(fault)
    \/ device_change

SpecDevice == InitBus /\ [][NextDevice]_vars

----------------------------------------------------------------------------
(* Identity specification: the driver is constructed over a device whose    *)
(* WHO_AM_I register holds any byte, and device_id_get is called over a     *)
(* transport that may fail.                                                 *)

InitId == \E b \in Byte : Start([PowerOn EXCEPT !["WhoAmI"] = b])

NextId ==
    /\ OneMoreCall(MaxCalls)
    /\ \E fault \in Faults(1, BusErrors) : device_id_get(fault)

SpecId == InitId /\ [][NextId]_vars

----------------------------------------------------------------------------
(* Polling specification: the examples' two busy loops.  The reset-wait     *)
(* loop follows reset_set().unwrap() and repeats reset_get().unwrap() while *)
(* it returns 1; flush_samples repeats status_reg_get()? until drdy is 1,   *)
(* then reads one sample.  `arg` is where the loop stands after an          *)
(* iteration.  The device ends the reset the driver asked for, restoring    *)
(* its defaults, and raises drdy when a sample is ready, if and when it     *)
(* does.                                                                    *)

\* the device presents a flag value the loops wait for
device_presents ==
    /\ \/ /\ op \in {"reset_set", "reset_wait"}
          /\ Get("Ctrl2", "soft_reset", regs["Ctrl2"]) = 1
          /\ regs' = PowerOn
       \/ /\ Get("Status", "drdy", regs["Status"]) = 0
          /\ regs' = [regs EXCEPT !["Status"] = With("Status", "drdy", @, 1)]
    /\ UNCHANGED << pre, op, arg, log, ret, last, prev, calls >>

\* sensor.reset_set().unwrap()
reset_set_call(fault) ==
    /\ op = "none"
    /\ field_set("reset_set", "none", fault)
    /\ UNCHANGED calls

\* one iteration of `while sensor.reset_get().unwrap() == 1 {}`
\* (faulty variant: the loop gives up after one read)
reset_waitMutantOnce(fault) ==
    /\ Succeeded("reset_set") \/ (op = "reset_wait" /\ arg = "polling")
    /\ LET s1 == Read(Begin(fault), "Ctrl2")
           soft_reset == Get("Ctrl2", "soft_reset", s1.got)
       IN  Return("reset_wait",
                  IF s1.err # NoError THEN "panicked" ELSE "exited",
                  s1, Ok("unit"))
    /\ UNCHANGED << last, calls >>
reset_wait(fault) ==
    /\ Succeeded("reset_set") \/ (op = "reset_wait" /\ arg = "polling")
    /\ LET s1 == Read(Begin(fault), "Ctrl2")
           soft_reset == Get("Ctrl2", "soft_reset", s1.got)
       IN  Return("reset_wait",
                  IF s1.err # NoError THEN "panicked"
                  ELSE IF soft_reset = 1 THEN "polling" ELSE "exited",
                  s1, Ok("unit"))
    /\ UNCHANGED << last, calls >>

\* one iteration of the loop of flush_samples
flush_samples(fault) ==
    /\ op = "none" \/ (op = "flush_samples" /\ arg = "polling")
    /\ LET s1 == Read(Begin(fault), "Status")
           drdy == IF s1.err = NoError THEN Get("Status", "drdy", s1.got) ELSE 0
           s4 == IF drdy = 1
                 THEN ReadWord(ReadWord(ReadWord(s1, "OutX"), "OutY"), "OutZ")
                 ELSE s1
       IN  Return("flush_samples",
                  IF s4.err # NoError THEN "failed"
                  ELSE IF drdy = 1 THEN "returned" ELSE "polling",
                  s4, Ok("unit"))
    /\ UNCHANGED << last, calls >>

NextPoll ==
    \/ \E fault \in Faults(2, OneCause) : reset_set_call(fault)
    \/ \E fault \in Faults(1, OneCause) : reset_wait(fault)
    \/ \E fault \in Faults(4, OneCause) : flush_samples(fault)
    \/ device_presents

SpecPoll == InitBus /\ [][NextPoll]_vars

\* The loops neither block nor yield: while a loop is running the processor
\* keeps executing its iterations.
SpecPollFair ==
    /\ SpecPoll
    /\ WF_vars(reset_wait(NoFault))
    /\ WF_vars(flush_samples(NoFault))

----------------------------------------------------------------------------
(* Conversion specification: the acceleration conversions are called with   *)
(* raw values over the whole i16 range, beside a device in any              *)
(* configuration.  Their f32 results are carried in thousandths of a mg,    *)
(* the precision of the multipliers' three decimals; the rounding of the    *)
(* f32 product is not part of the model.                                    *)

\* the conversion functions: thousandths of a mg for one LSB
\* (faulty variant: from_fs4_to_mg uses the multiplier left in its comment)
ConversionsMutantComment ==
    [ from_fs2_to_mg |-> 244, from_fs4_to_mg |-> 122, from_fs8_to_mg |-> 976,
      from_fs16_to_mg |-> 1952 ]
Conversions ==
    [ from_fs2_to_mg |-> 244, from_fs4_to_mg |-> 488, from_fs8_to_mg |-> 976,
      from_fs16_to_mg |-> 1952 ]

\* (lsb as f32) * multiplier
from_fs_to_mg(name, lsb) ==
    PureReturn(name, lsb, Ok(lsb * Conversions[name]))

\* raw values: the ends of the i16 and of the 14-bit range, and small ones
LsbArgs == {-32768, -8192, -100, -1, 0, 1, 100, 8191, 32767}

NextConvert ==
    /\ OneMoreCall(MaxCalls)
    /\ \E name \in DOMAIN Conversions, lsb \in LsbArgs : from_fs_to_mg(name, lsb)

SpecConvert == InitField /\ [][NextConvert]_vars

----------------------------------------------------------------------------
(* Settings specification: a sequence of setter calls with in-range values, *)
(* then one getter call, on a preloaded device over a bus that does not     *)
(* fail; the device does not change its registers by itself.                *)

\* one more setter call of the sequence
OneMoreSet == calls < MaxSets /\ calls' = calls + 1
\* the getter call that ends the sequence
LastCall == calls <= MaxSets /\ calls' = MaxSets + 1

NextSettings ==
    \/ /\ OneMoreSet
       /\ \/ \E name \in DOMAIN FieldSetters :
                \E val \in TopArgs(name), fault \in Reliable :
                    field_set(name, val, fault)
          \/ \E val \in {"ContLowPwrLowNoise2", "SingleLowPwr4"}, fault \in Reliable :
                power_mode_set(val, fault)
          \/ \E val \in {"_1_6hzLpOnly", "SetPinTrig"}, fault \in Reliable :
                data_rate_set(val, fault)
          \/ \E val \in {"UserOffsetOnOut", "HighPassOnOut"}, fault \in Reliable :
                filter_path_set(val, fault)
          \/ \E val \in Variants("SleepOn") \ {Default["SleepOn"]}, fault \in Reliable :
                act_mode_set(val, fault)
          \/ \E val \in {21, 42}, fault \in Reliable : ff_dur_set(val, fault)
          \/ \E val \in {85, 170}, fault \in Reliable : pin_int1_route_set(val, fault)
          \/ \E val \in {85, 170}, fault \in Reliable : pin_int2_route_set(val, fault)
          \/ \E name \in DOMAIN UsrOffsetSetters, val \in {-128, 127},
                 fault \in Reliable :
                usr_offset_set(name, val, fault)
    \/ /\ LastCall
       /\ \/ \E name \in DOMAIN FieldGetters, fault \in Reliable :
                field_get(name, fault)
          \/ \E fault \in Reliable : power_mode_get(fault)
          \/ \E fault \in Reliable : data_rate_get(fault)
          \/ \E fault \in Reliable : filter_path_get(fault)
          \/ \E fault \in Reliable : act_mode_get(fault)
          \/ \E fault \in Reliable : ff_dur_get(fault)
          \/ \E fault \in Reliable : pin_int1_route_get(fault)
          \/ \E fault \in Reliable : pin_int2_route_get(fault)
          \/ \E name \in DOMAIN UsrOffsetGetters, fault \in Reliable :
                usr_offset_get(name, fault)

SpecSettings == InitBus /\ [][NextSettings]_vars

----------------------------------------------------------------------------
(* User offset specification: a user offset setter is called with any i8    *)
(* value on a preloaded device, then a user offset getter, over a bus that  *)
(* does not fail.                                                           *)

usr_offset_set_call ==
    /\ OneMoreCall(MaxCalls)
    /\ \E name \in DOMAIN UsrOffsetSetters, val \in -128 .. 127 :
            usr_offset_set(name, val, NoFault)

usr_offset_get_call ==
    /\ calls <= MaxCalls
    /\ calls' = MaxCalls + 1
    /\ \E name \in DOMAIN UsrOffsetGetters : usr_offset_get(name, NoFault)

NextOffset == usr_offset_set_call \/ usr_offset_get_call

SpecOffset == InitBus /\ [][NextOffset]_vars

----------------------------------------------------------------------------
(* Interleaving specification: the driver holds no lock on the device and   *)
(* every bus transaction is a separate call of the transport, so while a    *)
(* driver call is between two of its transactions the device, or a second   *)
(* caller that is not synchronised with this one, may change registers.     *)
(* The change is entered in `log` as a "device" record at the place where   *)
(* it happened among the call's transactions.                               *)

\* the five source registers, in the order all_sources_get reads them
SourceRegs == << "StatusDup", "WakeUpSrc", "TapSrc", "SixdSrc", "AllIntSrc" >>

\* the registers of the sequence rs take the value v
RECURSIVE Change(_, _, _)
Change(s, rs, v) ==
    IF rs = << >> THEN s
    ELSE Change([s EXCEPT !.regs[Head(rs)] = v,
                          !.log = Append(@, [kind |-> "device",
                                             addr |-> Reg[Head(rs)], len |-> 1,
                                             data |-> v, ok |-> TRUE,
                                             cause |-> "none"])],
                Tail(rs), v)

\* what happens to the device after the i-th transaction of the call
Device(s, ev, i) == IF ev.at = i THEN Change(s, ev.regs, ev.val) ELSE s

\* the device raises (all ones) or clears (all zeros) the flags of some of
\* its source registers after the at-th read of all_sources_get
SourceEvents ==
    { [at |-> i, regs |-> LET In(r) == r \in S IN SelectSeq(SourceRegs, In),
       val |-> v] :
        i \in 1 .. 4, S \in (SUBSET {"StatusDup", "WakeUpSrc", "TapSrc",
                                     "SixdSrc", "AllIntSrc"}) \ {{}},
        v \in {0, 255} }

\* (faulty variant: the five values are taken from the registers as they
\* were when the call began)
all_sources_get_racingMutantSnapshot(ev) ==
    LET s0 == Begin(NoFault)
        s1 == Device(Read(s0, "StatusDup"), ev, 1)
        s2 == Device(Read(s1, "WakeUpSrc"), ev, 2)
        s3 == Device(Read(s2, "TapSrc"), ev, 3)
        s4 == Device(Read(s3, "SixdSrc"), ev, 4)
        s5 == Read(s4, "AllIntSrc")
    IN  GetterReturn("all_sources_get", s5,
                     Ok([status_dup |-> s0.regs["StatusDup"],
                         wake_up_src |-> s0.regs["WakeUpSrc"],
                         tap_src |-> s0.regs["TapSrc"],
                         sixd_src |-> s0.regs["SixdSrc"],
                         all_int_src |-> s0.regs["AllIntSrc"]]))

\* all_sources_get while the device changes source registers
all_sources_get_racing(ev) ==
    LET s1 == Read(Begin(NoFault), "StatusDup")
        s2 == Read(Device(s1, ev, 1), "WakeUpSrc")
        s3 == Read(Device(s2, ev, 2), "TapSrc")
        s4 == Read(Device(s3, ev, 3), "SixdSrc")
        s5 == Read(Device(s4, ev, 4), "AllIntSrc")
    IN  GetterReturn("all_sources_get", s5,
                     Ok([status_dup |-> s1.got, wake_up_src |-> s2.got,
                         tap_src |-> s3.got, sixd_src |-> s4.got,
                         all_int_src |-> s5.got]))

\* (faulty variant: the setter is atomic, the other writer's change comes
\* after the setter's write)
field_set_racingMutantAtomic(name, val, content) ==
    LET d == FieldSetters[name]
        s1 == Read(Begin(NoFault), d.reg)
        reg == With(d.reg, d.field, s1.got, FieldArg(d.ty, val))
        s2 == Write(s1, d.reg, reg)
        s3 == Change(s2, << d.reg >>, content)
    IN  SetterReturn(name, val, s3)

\* a single-field setter while another writer (the device itself, or a
\* second caller) gives the register another content between the setter's
\* read and its write
field_set_racing(name, val, content) ==
    LET d == FieldSetters[name]
        s1 == Read(Begin(NoFault), d.reg)
        reg == With(d.reg, d.field, s1.got, FieldArg(d.ty, val))
        s2 == Change(s1, << d.reg >>, content)
        s3 == Write(s2, d.reg, reg)
    IN  SetterReturn(name, val, s3)

NextRace ==
    /\ OneMoreCall(MaxCalls)
    /\ \/ \E ev \in SourceEvents : all_sources_get_racing(ev)
       \/ \E name \in DOMAIN FieldSetters :
            \E val \in TopArgs(name), content \in FewBytes :
                field_set_racing(name, val, content)

SpecRace == InitBus /\ [][NextRace]_vars

----------------------------------------------------------------------------
(* Mode::new specification: Mode::new is called with u8 arguments of any    *)
(* size, not only with sub-field values the registers can hold.             *)

\* u8 values: the sub-field values, the first values beyond them, and the
\* values whose shift or sum leaves eight bits
U8Samples == {0, 1, 2, 3, 4, 5, 15, 16, 63, 64, 128, 255}

\* a u8 sum that leaves eight bits has two outcomes, one per build profile:
\* with overflow checks the addition panics, without them it wraps
Mode_new_any(mode, lp_mode, low_noise) ==
    \/ Mode_new_call(mode, lp_mode, low_noise)
    \/ /\ ModeBits(mode, lp_mode, low_noise).ovf
       /\ Panic("Mode_new", << mode, lp_mode, low_noise >>, Begin(NoFault))

NextModeNew ==
    /\ OneMoreCall(MaxCalls)
    /\ \E mode \in U8Samples, lp_mode \in U8Samples, low_noise \in U8Samples :
            Mode_new_any(mode, lp_mode, low_noise)

SpecModeNew == InitEnum /\ [][NextModeNew]_vars

----------------------------------------------------------------------------
(* Claims. *)

InterruptsEnable == Bit(regs["Ctrl7"], 5)

RouteSetSucceeded ==
    Succeeded("pin_int1_route_set") \/ Succeeded("pin_int2_route_set")

\* C1 (as stated): after any successful pin_int1_route_set or
\* pin_int2_route_set, CTRL7.interrupts_enable is the OR of all sixteen
\* enable bits of CTRL4_INT1_PAD_CTRL and CTRL5_INT2_PAD_CTRL.
C1_EnableIsOrOfAllSixteen ==
    RouteSetSucceeded =>
        InterruptsEnable =
            (IF regs["Ctrl4Int1PadCtrl"] # 0 \/ regs["Ctrl5Int2PadCtrl"] # 0
             THEN 1 ELSE 0)

\* C1 (amended): after any successful pin_int1_route_set or
\* pin_int2_route_set, CTRL7.interrupts_enable is the OR of the seven event
\* bits int1_tap, int1_ff, int1_wu, int1_single_tap, int1_6d (CTRL4 bits 3..7)
\* and int2_sleep_chg, int2_sleep_state (CTRL5 bits 6..7); the data-ready,
\* FIFO, overrun, temperature and boot bits do not count.
C1_EnableIsOrOfSevenEventBits ==
    RouteSetSucceeded =>
        InterruptsEnable =
            (IF \/ \E i \in 3 .. 7 : Bit(regs["Ctrl4Int1PadCtrl"], i) = 1
                \/ \E i \in 6 .. 7 : Bit(regs["Ctrl5Int2PadCtrl"], i) = 1
             THEN 1 ELSE 0)

\* C1 witness: INT1 routing set to int1_drdy alone while INT2 routes only
\* int2_boot: interrupts_enable, set before the call, is now clear.
C1_Witness ==
    /\ Succeeded("pin_int1_route_set")
    /\ arg = 1
    /\ regs["Ctrl4Int1PadCtrl"] = 1
    /\ regs["Ctrl5Int2PadCtrl"] = 32
    /\ Bit(pre["Ctrl7"], 5) = 1
    /\ InterruptsEnable = 0

\* every bus transaction of the last call succeeded
AllOk == \A i \in 1 .. Len(log) : log[i].ok

\* the bits of register r outside field f are what they were before the call
OutsideKept(r, f) ==
    \A i \in 0 .. 7 :
        (i < Offset(r, f) \/ i >= Offset(r, f) + Width(r, f)) =>
            Bit(regs[r], i) = Bit(pre[r], i)

\* C2: field isolation.  After a successful call of any single-field setter
\* with an in-width value, every bit of the target register outside the
\* written field (unused bit positions included) is what it was before the
\* call, whatever byte the register held.
C2_FieldIsolation ==
    \A name \in DOMAIN FieldSetters :
        Succeeded(name) =>
            OutsideKept(FieldSetters[name].reg, FieldSetters[name].field)

\* C2 witness: block_data_update_set(1) on CTRL2 = 0xA5 gives 0xAD: only
\* bit 3 changed.
C2_Witness ==
    /\ Succeeded("block_data_update_set")
    /\ arg = 1
    /\ pre["Ctrl2"] = 165
    /\ regs["Ctrl2"] = 173

Repacks == {"Mode_repack", "Odr_repack", "Fds_repack", "SleepOn_repack"}

\* C3: pack/unpack round trip.  For every named variant v of Mode, Odr, Fds
\* and SleepOn, E::new applied to v's own sub-field accessors returns v
\* (and the sum inside new does not overflow).
C3_RepackReturnsVariant ==
    op \in Repacks => (ret.tag = "Ok" /\ ret.val = arg /\ ~ret.ovf)

\* C3 witness: Mode::new(v.mode(), v.lp_mode(), v.low_noise()) for
\* v = SingleLowPwrLowNoise3 (0x1A: all three sub-fields non-zero).
C3_Witness ==
    /\ op = "Mode_repack"
    /\ arg = "SingleLowPwrLowNoise3"
    /\ ret.val = "SingleLowPwrLowNoise3"

\* composite getter -> its setter
RoundTrips ==
    [ power_mode_get |-> "power_mode_set", data_rate_get |-> "data_rate_set",
      filter_path_get |-> "filter_path_set", act_mode_get |-> "act_mode_set" ]

\* C4: device-level composite round trip.  From any register contents, a
\* successful power_mode_set / data_rate_set / filter_path_set /
\* act_mode_set of a named variant v immediately followed by the matching
\* getter, when that succeeds, returns v.
C4_SetThenGetReturnsVariant ==
    \A g \in DOMAIN RoundTrips :
        (Succeeded(g) /\ prev.op = RoundTrips[g] /\ prev.tag = "Ok") =>
            (ret.val = prev.arg /\ ~ret.ovf)

\* C4 witness: power_mode_set(ContLowPwrLowNoise2) on a device whose CTRL1
\* and CTRL6 held other bits, then power_mode_get returning it.
C4_Witness ==
    /\ Succeeded("power_mode_get")
    /\ prev.op = "power_mode_set"
    /\ prev.tag = "Ok"
    /\ prev.arg = "ContLowPwrLowNoise2"
    /\ ret.val = "ContLowPwrLowNoise2"
    /\ regs["Ctrl1"] = 241
    /\ regs["Ctrl6"] = 4

EnumGetters == {n \in DOMAIN FieldGetters : FieldGetters[n].ty # "u8"}

Discriminants(E) == {Enums[E][v] : v \in Variants(E)}

\* the encoding the registers hold for each setting kept in two registers
Held ==
    [ power_mode_get |->
        [ty |-> "Mode",
         bits |-> 16 * Get("Ctrl6", "low_noise", regs["Ctrl6"])
                  + 4 * Get("Ctrl1", "mode", regs["Ctrl1"])
                  + Get("Ctrl1", "lp_mode", regs["Ctrl1"])],
      data_rate_get |->
        [ty |-> "Odr",
         bits |-> 16 * Get("Ctrl3", "slp_mode", regs["Ctrl3"])
                  + Get("Ctrl1", "odr", regs["Ctrl1"])],
      filter_path_get |->
        [ty |-> "Fds",
         bits |-> 16 * Get("Ctrl6", "fds", regs["Ctrl6"])
                  + Get("Ctrl7", "usr_off_on_out", regs["Ctrl7"])],
      act_mode_get |->
        [ty |-> "SleepOn",
         bits |-> 2 * Get("WakeUpDur", "stationary", regs["WakeUpDur"])
                  + Get("WakeUpThs", "sleep_on", regs["WakeUpThs"])] ]

\* C5: default fallback.  Every enum-returning getter whose bus reads
\* succeed returns Ok, and when the field encoding it read matches no named
\* variant it returns the type's default variant; a bad encoding never
\* makes it return an error.
C5_DefaultFallback ==
    /\ \A n \in EnumGetters :
            (op = n /\ AllOk) =>
                LET d == FieldGetters[n]
                    bits == Get(d.reg, d.field, regs[d.reg])
                IN  /\ ret.tag = "Ok"
                    /\ bits \notin Discriminants(d.ty) => ret.val = Default[d.ty]
    /\ \A n \in DOMAIN Held :
            (op = n /\ AllOk) =>
                /\ ret.tag = "Ok"
                /\ ~ret.ovf
                /\ Held[n].bits \notin Discriminants(Held[n].ty) =>
                        ret.val = Default[Held[n].ty]

\* C5 witness: act_mode_get on stationary = 1 with sleep_on = 0 (encoding 2,
\* no SleepOn variant) returns NoDetection.
C5_Witness ==
    /\ Succeeded("act_mode_get")
    /\ Get("WakeUpDur", "stationary", regs["WakeUpDur"]) = 1
    /\ Get("WakeUpThs", "sleep_on", regs["WakeUpThs"]) = 0
    /\ ret.val = "NoDetection"

\* the setters that write one register and then read and write a second
TwoStep ==
    [ power_mode_set |-> [first |-> "Ctrl1", second |-> "Ctrl6", ty |-> "Mode"],
      data_rate_set |-> [first |-> "Ctrl1", second |-> "Ctrl3", ty |-> "Odr"],
      filter_path_set |-> [first |-> "Ctrl6", second |-> "Ctrl7", ty |-> "Fds"] ]

\* the first register after the first write: byte b with the sub-fields of
\* discriminant d put in (CTRL1 bits 0..3 for Mode, CTRL1 bits 4..7 for Odr,
\* CTRL6 bit 3 for Fds)
FirstWritten(n, d, b) ==
    CASE n = "power_mode_set" -> (b \div 16) * 16 + (d % 16)
      [] n = "data_rate_set" -> (d % 16) * 16 + (b % 16)
      [] n = "filter_path_set" -> b - Bit(b, 3) * 8 + ((d \div 16) % 2) * 8

\* C6: no rollback in composite setters.  When power_mode_set, data_rate_set
\* or filter_path_set fails at the read or the write of its second register
\* after the write of the first one succeeded, it returns the error, the
\* first register holds its newly written sub-fields, the second register
\* is unchanged, and no further transaction addresses the first register.
C6_NoRollback ==
    \A n \in DOMAIN TwoStep :
        (Failed(n) /\ Len(log) >= 2 /\ log[2].ok) =>
            LET s == TwoStep[n]
            IN  /\ ret.kind = "Bus"
                /\ regs[s.first] = FirstWritten(n, Enums[s.ty][arg], pre[s.first])
                /\ regs[s.second] = pre[s.second]
                /\ \A i \in 3 .. Len(log) : log[i].addr # Reg[s.first]

\* C6 witness: power_mode_set(HighPerformance) on CTRL1 = 0 whose CTRL6
\* write fails: CTRL1 holds mode = 1 (0x04), CTRL6 is as before.
C6_Witness ==
    /\ Failed("power_mode_set")
    /\ arg = "HighPerformance"
    /\ Len(log) = 4
    /\ pre["Ctrl1"] = 0
    /\ regs["Ctrl1"] = 4
    /\ regs["Ctrl6"] = pre["Ctrl6"]

\* C7: immediate propagation without retry.  In every operation a bus
\* transaction that fails is the last transaction the call issues (it is
\* not repeated and nothing follows it) and the call returns Err.
C7_FailureEndsTheCall ==
    \A i \in 1 .. Len(log) :
        ~log[i].ok => (i = Len(log) /\ ret.tag = "Err")

\* C7 witness: all_sources_get whose third read (TAP_SRC) fails: three
\* transactions, then Err.
C7_Witness ==
    /\ Failed("all_sources_get")
    /\ Len(log) = 3
    /\ ~log[3].ok
    /\ log[3].addr = 57

\* C8: every error a driver operation returns is Error::Bus holding the
\* error the transport reported for the failed transaction, unchanged;
\* UnexpectedValue and WhoAmIError are never returned, and Err is returned
\* only when a bus transaction of the call failed.
C8_ErrorsAreBusErrors ==
    ret.tag = "Err" =>
        /\ ret.kind = "Bus"
        /\ Len(log) >= 1
        /\ ~log[Len(log)].ok
        /\ ret.cause = log[Len(log)].cause

\* C8 witness: fifo_mode_get on FIFO_CTRL.fmode = 7 whose read times out
\* returns Bus(Timeout).
C8_Witness ==
    /\ Failed("fifo_mode_get")
    /\ ret.kind = "Bus"
    /\ ret.cause = "Timeout"
    /\ Get("FifoCtrl", "fmode", regs["FifoCtrl"]) = 7

\* C9: free-fall duration split.  A successful ff_dur_set(val), for every
\* val in 0..255, stores bit 5 of val in WAKE_UP_DUR.ff_dur and bits 0..4
\* in FREE_FALL.ff_dur and leaves sleep_dur, stationary, wake_dur and ff_ths
\* as they were; an ff_dur_get that follows returns val mod 64, and its sum
\* does not overflow.
C9_FfDurSplit ==
    /\ Succeeded("ff_dur_set") =>
            /\ Get("WakeUpDur", "ff_dur", regs["WakeUpDur"]) = (arg \div 32) % 2
            /\ Get("FreeFall", "ff_dur", regs["FreeFall"]) = arg % 32
            /\ OutsideKept("WakeUpDur", "ff_dur")
            /\ OutsideKept("FreeFall", "ff_dur")
    /\ (Succeeded("ff_dur_get") /\ prev.op = "ff_dur_set" /\ prev.tag = "Ok") =>
            (ret.val = prev.arg % 64 /\ ~ret.ovf)

\* C9 witness: ff_dur_set(0xE5) then ff_dur_get returns 0x25, with
\* WAKE_UP_DUR.ff_dur = 1 and FREE_FALL.ff_dur = 0x05.
C9_Witness ==
    /\ Succeeded("ff_dur_get")
    /\ prev.op = "ff_dur_set"
    /\ prev.arg = 229
    /\ ret.val = 37
    /\ Get("WakeUpDur", "ff_dur", regs["WakeUpDur"]) = 1
    /\ Get("FreeFall", "ff_dur", regs["FreeFall"]) = 5

\* C10: FIFO watermark/mode independence.  Once fifo_watermark_set(w), w in
\* 0..31, has succeeded, FIFO_CTRL.fth stays w through any fifo_mode_set
\* calls and fifo_watermark_get returns w; and fifo_watermark_set leaves
\* FIFO_CTRL.fmode, hence what fifo_mode_get returns, as it was.
C10_WatermarkModeIndependent ==
    /\ "fifo_watermark_set" \in DOMAIN last =>
            /\ Get("FifoCtrl", "fth", regs["FifoCtrl"]) = last["fifo_watermark_set"]
            /\ Succeeded("fifo_watermark_get") =>
                    ret.val = last["fifo_watermark_set"]
    /\ Succeeded("fifo_watermark_set") =>
            Get("FifoCtrl", "fmode", regs["FifoCtrl"]) =
                Get("FifoCtrl", "fmode", pre["FifoCtrl"])

\* C10 witness: fifo_watermark_set(21), then fifo_mode_set(StreamMode), then
\* fifo_watermark_get returning 21 with FIFO_CTRL = 0xD5.
C10_Witness ==
    /\ Succeeded("fifo_watermark_get")
    /\ prev.op = "fifo_mode_set"
    /\ prev.arg = "StreamMode"
    /\ "fifo_watermark_set" \in DOMAIN last
    /\ last["fifo_watermark_set"] = 21
    /\ ret.val = 21
    /\ regs["FifoCtrl"] = 213

\* the 16-bit word the registers hold at the low-byte register lo and the
\* one after it, read as a signed number
SignedWord(lo) == Signed(regs[lo] + 256 * regs[At(Reg[lo] + 1)], 16)

\* C11: sign extension of left-justified samples.  acceleration_raw_get
\* returns, for each axis, the signed 16-bit word of the axis's register pair
\* arithmetically shifted right by 2 (within -8192..8191), and
\* temperature_raw_get returns the signed word of OUT_T shifted right by 4
\* (within -2048..2047); a word whose top bit is set gives a negative value.
C11_SamplesAreSignExtended ==
    /\ Succeeded("acceleration_raw_get") =>
            /\ ret.val = << SignedWord("OutXL") \div 4, SignedWord("OutYL") \div 4,
                            SignedWord("OutZL") \div 4 >>
            /\ \A i \in 1 .. 3 : ret.val[i] \in -8192 .. 8191
            /\ regs["OutXH"] >= 128 => ret.val[1] < 0
    /\ Succeeded("temperature_raw_get") =>
            /\ ret.val = SignedWord("OutTL") \div 16
            /\ ret.val \in -2048 .. 2047
            /\ regs["OutTH"] >= 128 => ret.val < 0

\* C11 witness: acceleration_raw_get on the words 0x8000 (14-bit pattern
\* 10000000000000) returns -8192 for every axis.
C11_Witness ==
    /\ Succeeded("acceleration_raw_get")
    /\ regs["OutXL"] = 0
    /\ regs["OutXH"] = 128
    /\ ret.val = << -8192, -8192, -8192 >>

\* C12: silent truncation of raw numeric setters.  A raw u8 setter of a field
\* narrower than 8 bits, called with any val in 0..255 on a bus that does not
\* fail, succeeds, stores val mod 2^width in the field and leaves every other
\* bit of the register unchanged.
C12_SilentTruncation ==
    op \in RawSetters =>
        LET d == FieldSetters[op]
        IN  /\ ret.tag = "Ok"
            /\ Get(d.reg, d.field, regs[d.reg]) = arg % Pow2(Width(d.reg, d.field))
            /\ OutsideKept(d.reg, d.field)
            /\ \A r \in RegNames \ {d.reg} : regs[r] = pre[r]

\* the shape of the transactions of the last call: kind and register address
\* of each, in order
Shape == [i \in 1 .. Len(log) |-> << log[i].kind, log[i].addr >>]

\* C13: routing-set transaction shape.  A successful pin_int1_route_set issues
\* exactly four one-byte bus transactions, in this order: read CTRL5, read
\* CTRL7, write CTRL4, write CTRL7; pin_int2_route_set does the same with
\* CTRL4 and CTRL5 exchanged.  The written pad register is never read, and
\* the two writes carry the argument and the recomputed CTRL7.
C13_RouteSetShape ==
    /\ Succeeded("pin_int1_route_set") =>
            /\ Shape = << << "read", Reg["Ctrl5Int2PadCtrl"] >>, << "read", Reg["Ctrl7"] >>,
                          << "write", Reg["Ctrl4Int1PadCtrl"] >>, << "write", Reg["Ctrl7"] >> >>
            /\ \A i \in 1 .. Len(log) : log[i].len = 1 /\ log[i].ok
            /\ log[3].data = arg
            /\ log[4].data = regs["Ctrl7"]
    /\ Succeeded("pin_int2_route_set") =>
            /\ Shape = << << "read", Reg["Ctrl4Int1PadCtrl"] >>, << "read", Reg["Ctrl7"] >>,
                          << "write", Reg["Ctrl5Int2PadCtrl"] >>, << "write", Reg["Ctrl7"] >> >>
            /\ \A i \in 1 .. Len(log) : log[i].len = 1 /\ log[i].ok
            /\ log[3].data = arg
            /\ log[4].data = regs["Ctrl7"]

\* C13 witness: pin_int2_route_set succeeded with a routing byte different
\* from the one CTRL5 held, after four transactions.
C13_Witness ==
    /\ Succeeded("pin_int2_route_set")
    /\ Len(log) = 4
    /\ pre["Ctrl5Int2PadCtrl"] # arg
    /\ regs["Ctrl5Int2PadCtrl"] = arg

\* the byte moved by the i-th transaction of the last call
Moved(i) == log[i].data

\* every read of the last call returned what the device holds now
ReadsAreCurrent ==
    \A i \in 1 .. Len(log) :
        log[i].kind = "read" => log[i].data = regs[At(log[i].addr)]

\* the result of a getter as a function of the bytes its reads returned
GetterOfReads ==
    /\ op \in DOMAIN FieldGetters =>
            LET d == FieldGetters[op]
            IN  ret = FieldResult(d.ty, Get(d.reg, d.field, Moved(1)))
    /\ op = "power_mode_get" =>
            LET mode == Get("Ctrl1", "mode", Moved(1))
                lp_mode == Get("Ctrl1", "lp_mode", Moved(1))
                low_noise == Get("Ctrl6", "low_noise", Moved(2))
            IN  ret.val = Mode_new(mode, lp_mode, low_noise)
    /\ op = "data_rate_get" =>
            ret.val = Odr_new(Get("Ctrl1", "odr", Moved(1)),
                              Get("Ctrl3", "slp_mode", Moved(2)))
    /\ op = "filter_path_get" =>
            ret.val = Fds_new(Get("Ctrl6", "fds", Moved(1)),
                              Get("Ctrl7", "usr_off_on_out", Moved(2)))
    /\ op = "act_mode_get" =>
            ret.val = SleepOn_new(Get("WakeUpThs", "sleep_on", Moved(1)),
                                  Get("WakeUpDur", "stationary", Moved(2)))
    /\ op = "device_id_get" => ret.val = Moved(1)

\* the bytes a setter wrote as a function of its argument and of the bytes
\* its reads returned
SetterOfReads ==
    /\ op \in DOMAIN FieldSetters =>
            LET d == FieldSetters[op]
            IN  Moved(2) = With(d.reg, d.field, Moved(1), FieldArg(d.ty, arg))
    /\ op = "power_mode_set" =>
            /\ Moved(2) = With("Ctrl1", "lp_mode",
                               With("Ctrl1", "mode", Moved(1), Mode_mode(arg)),
                               Mode_lp_mode(arg))
            /\ Moved(4) = With("Ctrl6", "low_noise", Moved(3), Mode_low_noise(arg))
    /\ op = "data_rate_set" =>
            /\ Moved(2) = With("Ctrl1", "odr", Moved(1), Odr_odr(arg))
            /\ Moved(4) = With("Ctrl3", "slp_mode", Moved(3), Odr_slp_mode(arg))
    /\ op = "filter_path_set" =>
            /\ Moved(2) = With("Ctrl6", "fds", Moved(1), Fds_fds(arg))
            /\ Moved(4) = With("Ctrl7", "usr_off_on_out", Moved(3),
                               Fds_usr_off_on_out(arg))
    /\ op = "act_mode_set" =>
            /\ Moved(3) = With("WakeUpThs", "sleep_on", Moved(1), SleepOn_sleep_on(arg))
            /\ Moved(4) = With("WakeUpDur", "stationary", Moved(2),
                               SleepOn_stationary(arg))

\* C14: no shadow state.  Whatever calls were made before and however the
\* device changed its registers between calls, a getter that has just
\* returned read the device's current contents and its result is a function
\* of the bytes those reads returned; the bytes a setter wrote are a function
\* of its argument and of the bytes its own reads returned, which were the
\* device's contents when the call began.
C14_NoShadowState ==
    (op \notin {"none", "device_change"} /\ ret.tag = "Ok") =>
        /\ GetterOfReads
        /\ SetterOfReads
        /\ \A i \in 1 .. Len(log) :
                log[i].kind = "read" => log[i].data = pre[At(log[i].addr)]
        /\ (\A i \in 1 .. Len(log) : log[i].kind = "read") => ReadsAreCurrent

\* C14 witness: power_mode_set stored a variant, the device then changed its
\* registers by itself, and power_mode_get returned another variant: the one
\* the device holds now.
C14_Witness ==
    /\ Succeeded("power_mode_get")
    /\ prev.op = "device_change"
    /\ "power_mode_set" \in DOMAIN last
    /\ ret.val # last["power_mode_set"]
    /\ ReadsAreCurrent

\* the getters that read two registers, with the registers in reading order
CompositeGetters ==
    [ power_mode_get |-> << "Ctrl1", "Ctrl6" >>,
      data_rate_get |-> << "Ctrl1", "Ctrl3" >>,
      filter_path_get |-> << "Ctrl6", "Ctrl7" >>,
      act_mode_get |-> << "WakeUpThs", "WakeUpDur" >>,
      ff_dur_get |-> << "WakeUpDur", "FreeFall" >> ]

\* every *_get operation
Getters ==
    DOMAIN FieldGetters \cup DOMAIN CompositeGetters \cup DOMAIN StructGetters
        \cup DOMAIN UsrOffsetGetters
        \cup {"pin_int1_route_get", "pin_int2_route_get", "all_sources_get",
              "device_id_get", "temperature_raw_get", "acceleration_raw_get"}

\* C15: getters are read-only.  Every *_get operation, whether it succeeds or
\* fails, issues only bus reads, so every register is after the call what it
\* was before it; a composite getter that succeeds has issued exactly one
\* read for each of its two registers.
C15_GettersOnlyRead ==
    op \in Getters =>
        /\ Len(log) >= 1
        /\ \A i \in 1 .. Len(log) : log[i].kind = "read"
        /\ regs = pre
        /\ (op \in DOMAIN CompositeGetters /\ ret.tag = "Ok") =>
                Shape = << << "read", Reg[CompositeGetters[op][1]] >>,
                           << "read", Reg[CompositeGetters[op][2]] >> >>

\* C15 witness: act_mode_get succeeded on registers that are not all zero
\* with its two reads, and every register is as before.
C15_Witness ==
    /\ Succeeded("act_mode_get")
    /\ Len(log) = 2
    /\ regs["WakeUpThs"] # 0
    /\ regs = pre

ModeFields ==
    << Get("Ctrl1", "mode", regs["Ctrl1"]), Get("Ctrl1", "lp_mode", regs["Ctrl1"]),
       Get("Ctrl6", "low_noise", regs["Ctrl6"]) >>

\* C17 as stated: the variant with mode = 1, lp_mode = 0, low_noise = 1 is
\* ContLowPwrLowNoise2.  Mode::new on these sub-fields (as power_mode_get
\* calls it on registers that hold them) returns ContLowPwrLowNoise2, and
\* power_mode_set(ContLowPwrLowNoise2) leaves mode = 1, lp_mode = 0 in CTRL1
\* and low_noise = 1 in CTRL6.
C17_OneZeroOneIsContLowPwrLowNoise2 ==
    /\ (Succeeded("power_mode_get") /\ ModeFields = << 1, 0, 1 >>) =>
            ret.val = "ContLowPwrLowNoise2"
    /\ (Succeeded("power_mode_set") /\ arg = "ContLowPwrLowNoise2") =>
            ModeFields = << 1, 0, 1 >>

\* C17 as the code has it: the variant with mode = 1, lp_mode = 0,
\* low_noise = 1 is HighPerformanceLowNoise (0x14), which Mode::new returns
\* for these sub-fields; ContLowPwrLowNoise2 (0x11) is mode = 0, lp_mode = 1,
\* low_noise = 1, which is what power_mode_set(ContLowPwrLowNoise2) leaves in
\* CTRL1 and CTRL6 and what Mode::new turns back into ContLowPwrLowNoise2.
C17_OneZeroOneIsHighPerformanceLowNoise ==
    /\ (Succeeded("power_mode_get") /\ ModeFields = << 1, 0, 1 >>) =>
            ret.val = "HighPerformanceLowNoise"
    /\ (Succeeded("power_mode_get") /\ ModeFields = << 0, 1, 1 >>) =>
            ret.val = "ContLowPwrLowNoise2"
    /\ (Succeeded("power_mode_set") /\ arg = "ContLowPwrLowNoise2") =>
            ModeFields = << 0, 1, 1 >>
    /\ (Succeeded("power_mode_set") /\ arg = "HighPerformanceLowNoise") =>
            ModeFields = << 1, 0, 1 >>

\* C17 witness: power_mode_set(ContLowPwrLowNoise2) left mode = 0,
\* lp_mode = 1, low_noise = 1 and power_mode_get then returned the variant.
C17_Witness ==
    /\ Succeeded("power_mode_get")
    /\ prev.op = "power_mode_set"
    /\ prev.arg = "ContLowPwrLowNoise2"
    /\ ModeFields = << 0, 1, 1 >>
    /\ ret.val = "ContLowPwrLowNoise2"

ResetWaitRuns == Succeeded("reset_set") \/ (op = "reset_wait" /\ arg = "polling")
FlushRuns == op = "flush_samples" /\ arg = "polling"
SoftReset == Get("Ctrl2", "soft_reset", regs["Ctrl2"])
Drdy == Get("Status", "drdy", regs["Status"])

\* a loop has ended only on the awaited flag value or on a failed read
PollExits ==
    /\ (op = "reset_wait" /\ arg = "exited") =>
            /\ ret.tag = "Ok"
            /\ Get("Ctrl2", "soft_reset", log[1].data) = 0
    /\ (op = "reset_wait" /\ arg = "panicked") =>
            ret.tag = "Err" /\ ~log[Len(log)].ok
    /\ (op = "flush_samples" /\ arg = "returned") =>
            /\ ret.tag = "Ok"
            /\ Get("Status", "drdy", log[1].data) = 1
    /\ (op = "flush_samples" /\ arg = "failed") =>
            ret.tag = "Err" /\ ~log[Len(log)].ok

\* an iteration whose read succeeds on a device that does not present the
\* awaited value leaves the loop running, however many came before
PollGoesOn ==
    /\ (ResetWaitRuns /\ op' = "reset_wait" /\ ret'.tag = "Ok" /\ SoftReset' = 1) =>
            arg' = "polling"
    /\ (FlushRuns /\ op' = "flush_samples" /\ ret'.tag = "Ok" /\ Drdy' = 0) =>
            arg' = "polling"

\* C18: polling loops have no iteration bound.  The reset-wait loop and
\* flush_samples end only when a read shows the awaited flag value
\* (soft_reset other than 1, drdy = 1) or a bus read fails; an iteration
\* that reads the flag not yet presented always leads to another iteration,
\* so a device that never presents it keeps the loop running for ever; and
\* once the device presents the awaited value the loop ends.
C18_PollingLoops ==
    /\ []PollExits
    /\ [][PollGoesOn]_vars
    /\ (ResetWaitRuns /\ SoftReset = 0) ~> (op = "reset_wait" /\ arg \in {"exited", "panicked"})
    /\ (FlushRuns /\ Drdy = 1) ~> (op = "flush_samples" /\ arg \in {"returned", "failed"})

\* C18 witness: the reset-wait loop read soft_reset = 1 at least twice, the
\* device then ended its reset, and the next read ended the loop.
C18_Witness ==
    /\ op = "reset_wait"
    /\ arg = "exited"
    /\ prev.op = "reset_wait"
    /\ prev.arg = "polling"
    /\ regs = PowerOn

FieldBits(r, f) == {<< r, i >> : i \in Offset(r, f) .. Offset(r, f) + Width(r, f) - 1}
RegBits(r) == {<< r, i >> : i \in 0 .. 7}

\* the setters of the settings held in several fields, with the bits each
\* setting occupies
WideSetters ==
    [ power_mode_set |-> FieldBits("Ctrl1", "mode") \cup FieldBits("Ctrl1", "lp_mode")
                           \cup FieldBits("Ctrl6", "low_noise"),
      data_rate_set |-> FieldBits("Ctrl1", "odr") \cup FieldBits("Ctrl3", "slp_mode"),
      filter_path_set |-> FieldBits("Ctrl6", "fds")
                            \cup FieldBits("Ctrl7", "usr_off_on_out"),
      act_mode_set |-> FieldBits("WakeUpThs", "sleep_on")
                         \cup FieldBits("WakeUpDur", "stationary"),
      ff_dur_set |-> FieldBits("WakeUpDur", "ff_dur") \cup FieldBits("FreeFall", "ff_dur"),
      pin_int1_route_set |-> RegBits("Ctrl4Int1PadCtrl"),
      pin_int2_route_set |-> RegBits("Ctrl5Int2PadCtrl"),
      usr_offset_x_set |-> RegBits("XOfsUsr"),
      usr_offset_y_set |-> RegBits("YOfsUsr"),
      usr_offset_z_set |-> RegBits("ZOfsUsr") ]

Setters == DOMAIN FieldSetters \cup DOMAIN WideSetters

\* the bits that hold the setting a setter sets
OwnBits(s) ==
    IF s \in DOMAIN FieldSetters
    THEN FieldBits(FieldSetters[s].reg, FieldSetters[s].field)
    ELSE WideSetters[s]

\* the bit the routing setters recompute; no getter returns it
SharedEnable == FieldBits("Ctrl7", "interrupts_enable")

\* the getter of each setting held in several fields
WideGetters ==
    [ power_mode_get |-> "power_mode_set", data_rate_get |-> "data_rate_set",
      filter_path_get |-> "filter_path_set", act_mode_get |-> "act_mode_set",
      ff_dur_get |-> "ff_dur_set", pin_int1_route_get |-> "pin_int1_route_set",
      pin_int2_route_get |-> "pin_int2_route_set",
      usr_offset_x_get |-> "usr_offset_x_set", usr_offset_y_get |-> "usr_offset_y_set",
      usr_offset_z_get |-> "usr_offset_z_set" ]

\* the single-field setters of the field a single-field getter returns
OwnFieldSetters(g) ==
    {s \in DOMAIN FieldSetters :
        /\ FieldSetters[s].reg = FieldGetters[g].reg
        /\ FieldSetters[s].field = FieldGetters[g].field}

\* a getter that has just succeeded returned the argument of the most
\* recent successful call of its own setter, when there was one
GetsLastSet ==
    /\ (op \in DOMAIN WideGetters /\ ret.tag = "Ok"
            /\ WideGetters[op] \in DOMAIN last) =>
            ret.val = last[WideGetters[op]]
    /\ (op \in DOMAIN FieldGetters /\ ret.tag = "Ok") =>
            \A s \in OwnFieldSetters(op) \cap DOMAIN last :
                IF FieldSetters[s].ty = "enable"
                THEN ret.val = PROPERTY_ENABLE
                ELSE ret.val = last[s]

\* no two setters set a common bit
SettingsAreDisjoint ==
    \A s1 \in Setters, s2 \in Setters :
        s1 # s2 => OwnBits(s1) \cap OwnBits(s2) = {}

\* a successful setter call changes no bit that holds another setting:
\* only its own bits and, for the routing setters, the shared enable bit
SettersKeepOthers ==
    (op' \in Setters /\ ret'.tag = "Ok" /\ calls' # calls) =>
        \A r \in RegNames, i \in 0 .. 7 :
            Bit(regs'[r], i) # Bit(regs[r], i) =>
                \/ << r, i >> \in OwnBits(op')
                \/ /\ op' \in {"pin_int1_route_set", "pin_int2_route_set"}
                   /\ << r, i >> \in SharedEnable

\* C20: non-interference of settings over any sequence.  On a device that
\* does not change by itself, a successful setter call with an in-range
\* value changes only the bits of its own setting (the routing setters also
\* recompute interrupts_enable, which no getter returns), no two setters
\* share a bit, and so a getter called after any sequence of setters
\* returns the value passed to the most recent call of its own setter,
\* whichever settings of the same register were set in between.
C20_SettingsDoNotInterfere ==
    /\ []GetsLastSet
    /\ []SettingsAreDisjoint
    /\ [][SettersKeepOthers]_vars

\* C20 witness: full_scale_set, then power_mode_set (low_noise, beside fs in
\* CTRL6), then full_scale_get returned the full scale that was set.
C20_Witness ==
    /\ Succeeded("full_scale_get")
    /\ prev.op = "power_mode_set"
    /\ "full_scale_set" \in DOMAIN last
    /\ ret.val = last["full_scale_set"]
    /\ Get("Ctrl6", "low_noise", regs["Ctrl6"]) = 1

\* the seven event fields whose routing turns interrupts_enable on
Int1Events == {"int1_tap", "int1_ff", "int1_wu", "int1_single_tap", "int1_6d"}
Int2Events == {"int2_sleep_chg", "int2_sleep_state"}

\* C21: after a successful pin_int1_route_set or pin_int2_route_set, from
\* whatever the pad registers and CTRL7 held (so after any sequence of such
\* calls), CTRL7.interrupts_enable is 1 exactly when one of CTRL4.int1_tap,
\* int1_ff, int1_wu, int1_single_tap, int1_6d, CTRL5.int2_sleep_chg,
\* int2_sleep_state is 1 in the pad registers as they are now, and every
\* other field of CTRL7 has the value it had before the call.
C21_EnableFollowsPadRegisters ==
    RouteSetSucceeded =>
        /\ Get("Ctrl7", "interrupts_enable", regs["Ctrl7"]) = 1 <=>
                \/ \E f \in Int1Events :
                        Get("Ctrl4Int1PadCtrl", f, regs["Ctrl4Int1PadCtrl"]) = 1
                \/ \E f \in Int2Events :
                        Get("Ctrl5Int2PadCtrl", f, regs["Ctrl5Int2PadCtrl"]) = 1
        /\ \A f \in DOMAIN FieldPos["Ctrl7"] \ {"interrupts_enable"} :
                Get("Ctrl7", f, regs["Ctrl7"]) = Get("Ctrl7", f, pre["Ctrl7"])

\* C21 witness: pin_int1_route_set cleared the INT1 routing while CTRL5
\* routes int2_sleep_chg alone: interrupts_enable, clear before the call, is
\* set, and the other CTRL7 bits are still clear.
C21_Witness ==
    /\ Succeeded("pin_int1_route_set")
    /\ arg = 0
    /\ regs["Ctrl5Int2PadCtrl"] = 64
    /\ pre["Ctrl7"] = 0
    /\ regs["Ctrl7"] = 32

\* C22: the routing setters replace the whole pad byte.  A successful
\* pin_int1_route_set(val) never reads CTRL4_INT1_PAD_CTRL, writes val to it
\* as it is, all eight bits, whatever the register held, and leaves
\* CTRL5_INT2_PAD_CTRL unchanged; a pin_int1_route_get that follows returns
\* val.  The same holds for pin_int2_route_set with CTRL5 and CTRL4
\* exchanged.
C22_RouteSetReplacesPadByte ==
    /\ Succeeded("pin_int1_route_set") =>
            /\ regs["Ctrl4Int1PadCtrl"] = arg
            /\ regs["Ctrl5Int2PadCtrl"] = pre["Ctrl5Int2PadCtrl"]
            /\ \A i \in 1 .. Len(log) :
                    log[i].addr = Reg["Ctrl4Int1PadCtrl"] =>
                        log[i].kind = "write" /\ log[i].data = arg
    /\ Succeeded("pin_int2_route_set") =>
            /\ regs["Ctrl5Int2PadCtrl"] = arg
            /\ regs["Ctrl4Int1PadCtrl"] = pre["Ctrl4Int1PadCtrl"]
            /\ \A i \in 1 .. Len(log) :
                    log[i].addr = Reg["Ctrl5Int2PadCtrl"] =>
                        log[i].kind = "write" /\ log[i].data = arg
    /\ (Succeeded("pin_int1_route_get") /\ prev.op = "pin_int1_route_set"
            /\ prev.tag = "Ok") => ret.val = prev.arg
    /\ (Succeeded("pin_int2_route_get") /\ prev.op = "pin_int2_route_set"
            /\ prev.tag = "Ok") => ret.val = prev.arg

\* C22 witness: pin_int1_route_set, then pin_int2_route_set(0xAA), then
\* pin_int2_route_get returned 0xAA while CTRL4 still holds what the first
\* call wrote.
C22_Witness ==
    /\ Succeeded("pin_int2_route_get")
    /\ prev.op = "pin_int2_route_set"
    /\ ret.val = 170
    /\ "pin_int1_route_set" \in DOMAIN last
    /\ regs["Ctrl4Int1PadCtrl"] = last["pin_int1_route_set"]

\* the pad register a routing setter writes
RoutePad == [pin_int1_route_set |-> "Ctrl4Int1PadCtrl",
             pin_int2_route_set |-> "Ctrl5Int2PadCtrl"]

\* the interrupts_enable a routing call computes from its argument and the
\* other pad register
RouteComputed ==
    IF op = "pin_int1_route_set"
    THEN RouteEnable(arg, regs["Ctrl5Int2PadCtrl"])
    ELSE RouteEnable(regs["Ctrl4Int1PadCtrl"], arg)

\* C23: partial failure of a routing set.  When pin_int1_route_set or
\* pin_int2_route_set fails at one of its two reads, or at the write of the
\* pad register, no register has changed and CTRL7 was not written; when it
\* fails at the write of CTRL7, the pad register holds the new routing and
\* CTRL7, interrupts_enable included, is what it was.
C23_RouteSetPartialFailure ==
    (op \in DOMAIN RoutePad /\ ret.tag = "Err") =>
        /\ Len(log) \in 1 .. 4
        /\ ~log[Len(log)].ok
        /\ regs["Ctrl7"] = pre["Ctrl7"]
        /\ Len(log) <= 2 => \A i \in 1 .. Len(log) : log[i].kind = "read"
        /\ Len(log) <= 3 =>
                /\ regs = pre
                /\ \A i \in 1 .. Len(log) :
                        ~(log[i].kind = "write" /\ log[i].addr = Reg["Ctrl7"])
        /\ Len(log) = 4 =>
                /\ regs[RoutePad[op]] = arg
                /\ \A r \in RegNames \ {RoutePad[op]} : regs[r] = pre[r]

\* C23 witness: pin_int1_route_set(int1_6d) failed at the write of CTRL7:
\* CTRL4 routes the event, the call had computed interrupts_enable = 1, and
\* interrupts_enable is still 0.
C23_Witness ==
    /\ Failed("pin_int1_route_set")
    /\ Len(log) = 4
    /\ arg = 128
    /\ regs["Ctrl4Int1PadCtrl"] = 128
    /\ pre["Ctrl4Int1PadCtrl"] = 0
    /\ RouteComputed = 1
    /\ Get("Ctrl7", "interrupts_enable", regs["Ctrl7"]) = 0

\* the two registers of the setters that read both before writing either,
\* in the order they are read and written
ReadBothFirst ==
    [ act_mode_set |-> << "WakeUpThs", "WakeUpDur" >>,
      ff_dur_set |-> << "WakeUpDur", "FreeFall" >> ]

\* C24: act_mode_set and ff_dur_set read both registers before writing
\* either.  A failed call has issued its transactions in the order read,
\* read, write, write up to the one that failed; when a read failed (first
\* or second transaction) or the first write failed (third) no register has
\* changed; when the second write failed (fourth) the first-written
\* register, WAKE_UP_THS for act_mode_set and WAKE_UP_DUR for ff_dur_set,
\* holds what the call wrote and every other register is unchanged.
C24_ReadBothThenWrite ==
    (op \in DOMAIN ReadBothFirst /\ ret.tag = "Err") =>
        LET first == ReadBothFirst[op][1]
            second == ReadBothFirst[op][2]
            n == Len(log)
        IN  /\ n \in 1 .. 4
            /\ ~log[n].ok
            /\ \A i \in 1 .. n :
                    << log[i].kind, log[i].addr >> =
                        << << "read", Reg[first] >>, << "read", Reg[second] >>,
                           << "write", Reg[first] >>, << "write", Reg[second] >> >>[i]
            /\ n <= 3 => regs = pre
            /\ n = 4 =>
                    /\ regs[first] = log[3].data
                    /\ \A r \in RegNames \ {first} : regs[r] = pre[r]

\* C24 witness: act_mode_set failed at its second write: WAKE_UP_THS has
\* changed and WAKE_UP_DUR has not.
C24_Witness ==
    /\ Failed("act_mode_set")
    /\ Len(log) = 4
    /\ regs["WakeUpThs"] # pre["WakeUpThs"]
    /\ regs["WakeUpDur"] = pre["WakeUpDur"]

\* the last call issued one read then one write, both of one byte at the
\* address of register r, none after a failure
ReadThenWrite(r) ==
    /\ Len(log) \in 1 .. 2
    /\ log[1].kind = "read"
    /\ Len(log) = 2 => log[2].kind = "write" /\ log[1].ok
    /\ \A i \in 1 .. Len(log) : log[i].addr = Reg[r] /\ log[i].len = 1
    /\ ret.tag = "Ok" <=> (Len(log) = 2 /\ log[2].ok)
    /\ ret.tag = "Err" => ret.kind = "Bus" /\ ~log[Len(log)].ok

\* C25 as stated: every setter of one field of one register, the user
\* offset setters included, issues one read then one write at the register's
\* address when it succeeds, and fails only with a bus error.
C25_EverySimpleSetterReadsThenWrites ==
    /\ op \in DOMAIN FieldSetters => ReadThenWrite(FieldSetters[op].reg)
    /\ op \in DOMAIN UsrOffsetSetters => ReadThenWrite(UsrOffsetSetters[op])

\* C25 as the code has it: every setter of one field of a register that
\* holds several reads the register and writes it back, one read then one
\* write at the register's address when it succeeds, and the only Err it
\* returns is a bus error; usr_offset_x_set, usr_offset_y_set and
\* usr_offset_z_set, whose field is the whole register, issue one write and
\* no read.
C25_FieldSettersReadThenWrite ==
    /\ op \in DOMAIN FieldSetters => ReadThenWrite(FieldSetters[op].reg)
    /\ op \in DOMAIN UsrOffsetSetters =>
            /\ Len(log) = 1
            /\ log[1].kind = "write"
            /\ log[1].addr = Reg[UsrOffsetSetters[op]] /\ log[1].len = 1
            /\ ret.tag = "Ok" <=> log[1].ok
            /\ ret.tag = "Err" => ret.kind = "Bus"

\* C25 witness: full_scale_set succeeded with one read and one write of
\* CTRL6, and the register has changed.
C25_Witness ==
    /\ Succeeded("full_scale_set")
    /\ Shape = << << "read", Reg["Ctrl6"] >>, << "write", Reg["Ctrl6"] >> >>
    /\ regs["Ctrl6"] # pre["Ctrl6"]

\* the setter of the axis a user offset getter reads
SetterOfAxis(getter) ==
    CHOOSE s \in DOMAIN UsrOffsetSetters :
        UsrOffsetSetters[s] = UsrOffsetGetters[getter]

\* C26: user offset round trip.  usr_offset_{x,y,z}_set(v), for every v in
\* -128..127, issues a single one-byte write of v's two's-complement pattern
\* (v, or v + 256 when v is negative) at the axis register (0x3C, 0x3D,
\* 0x3E) and no read, leaves every other register as it was, and a following
\* usr_offset_{x,y,z}_get of the same axis returns v.
C26_UsrOffsetRoundTrip ==
    /\ op \in DOMAIN UsrOffsetSetters =>
            LET r == UsrOffsetSetters[op] IN
            /\ ret.tag = "Ok"
            /\ Len(log) = 1
            /\ log[1].kind = "write" /\ log[1].len = 1
            /\ log[1].addr = Reg[r] /\ Reg[r] \in {60, 61, 62}
            /\ log[1].data = (arg + 256) % 256
            /\ regs[r] = (arg + 256) % 256
            /\ \A o \in RegNames \ {r} : regs[o] = pre[o]
    /\ (op \in DOMAIN UsrOffsetGetters /\ SetterOfAxis(op) \in DOMAIN last) =>
            /\ ret.tag = "Ok"
            /\ ret.val = last[SetterOfAxis(op)]
            /\ ret.val \in -128 .. 127

\* C26 witness: usr_offset_z_get returns -128 after usr_offset_z_set(-128)
\* wrote 0x80 to Z_OFS_USR.
C26_Witness ==
    /\ Succeeded("usr_offset_z_get")
    /\ prev.op = "usr_offset_z_set"
    /\ regs["ZOfsUsr"] = 128
    /\ ret.val = -128

\* the bus transactions of the last call, without what the device did
IsBus(t) == t.kind # "device"
BusLog == SelectSeq(log, IsBus)

\* the content of register r when the i-th entry of the log was made
ValueAt(r, i) ==
    LET ds == {j \in 1 .. i - 1 : log[j].kind = "device" /\ log[j].addr = Reg[r]}
    IN  IF ds = {} THEN pre[r]
        ELSE log[CHOOSE j \in ds : \A k \in ds : k <= j].data

\* the member of AllSources that holds the byte read from a source register
SourceField ==
    [ StatusDup |-> "status_dup", WakeUpSrc |-> "wake_up_src",
      TapSrc |-> "tap_src", SixdSrc |-> "sixd_src", AllIntSrc |-> "all_int_src" ]

\* five one-byte reads at 0x37 .. 0x3B in this order and no write
FiveReadsInOrder ==
    /\ Len(BusLog) = 5
    /\ \A i \in 1 .. 5 :
        /\ BusLog[i].kind = "read" /\ BusLog[i].len = 1
        /\ BusLog[i].addr = 54 + i
        /\ BusLog[i].addr = Reg[SourceRegs[i]]

\* C27 as stated: all_sources_get issues five one-byte reads in the order
\* STATUS_DUP, WAKE_UP_SRC, TAP_SRC, SIXD_SRC, ALL_INT_SRC and no write, and
\* the five values returned are the content of the five registers at one
\* single instant of the call, even if the device changes them meanwhile.
C27_SourcesAreOneSnapshot ==
    Succeeded("all_sources_get") =>
        /\ FiveReadsInOrder
        /\ \E i \in 1 .. Len(log) + 1 :
            \A r \in DOMAIN SourceField : ret.val[SourceField[r]] = ValueAt(r, i)

\* C27 as the code has it: all_sources_get issues five one-byte reads in the
\* order STATUS_DUP, WAKE_UP_SRC, TAP_SRC, SIXD_SRC, ALL_INT_SRC and no
\* write, and each value returned is the content of its register at the
\* time of that register's own read: a register the device changes after it
\* was read is returned with its old content beside the new content of a
\* register read later.
C27_EachSourceAtItsOwnRead ==
    Succeeded("all_sources_get") =>
        /\ FiveReadsInOrder
        /\ \A i \in 1 .. Len(log) :
            log[i].kind = "read" =>
                /\ log[i].data = ValueAt(At(log[i].addr), i)
                /\ ret.val[SourceField[At(log[i].addr)]] = log[i].data

\* C27 witness: the device raised the flags of STATUS_DUP and ALL_INT_SRC
\* after the third read; the call returns the old STATUS_DUP beside the new
\* ALL_INT_SRC.
C27_Witness ==
    /\ Succeeded("all_sources_get")
    /\ Len(log) = 7
    /\ log[4].kind = "device" /\ log[5].kind = "device"
    /\ ret.val.status_dup = pre["StatusDup"]
    /\ regs["StatusDup"] = 255 /\ pre["StatusDup"] = 0
    /\ ret.val.all_int_src = 255 /\ pre["AllIntSrc"] = 0

\* C29: lost update under interleaving.  A read-modify-write setter is not
\* atomic: when the device or a second caller gives the register another
\* content between the setter's read and its write, the setter's write puts
\* back, in every bit outside its own field, the value it read earlier, so
\* the other writer's change to those bits is lost (a CTRL2 setter that read
\* soft_reset = 1 writes soft_reset = 1 back).
C29_LostUpdate ==
    (op \in DOMAIN FieldSetters /\ ret.tag = "Ok") =>
        LET r == FieldSetters[op].reg IN
        /\ Len(log) = 3
        /\ log[1].kind = "read" /\ log[2].kind = "device" /\ log[3].kind = "write"
        /\ \A i \in 1 .. 3 : log[i].addr = Reg[r]
        /\ log[1].data = pre[r]
        /\ regs[r] = log[3].data
        /\ \A i \in 0 .. 7 :
            << r, i >> \notin OwnBits(op) => Bit(regs[r], i) = Bit(log[1].data, i)

\* C29 witness: block_data_update_set read CTRL2 with soft_reset = 1, the
\* device cleared soft_reset before the write, and the write has set
\* soft_reset again.
C29_Witness ==
    /\ Succeeded("block_data_update_set")
    /\ Len(log) = 3
    /\ Get("Ctrl2", "soft_reset", log[1].data) = 1
    /\ log[2].kind = "device"
    /\ Get("Ctrl2", "soft_reset", log[2].data) = 0
    /\ Get("Ctrl2", "soft_reset", regs["Ctrl2"]) = 1

\* the variants whose three accessors return the given values
ModeMatching(mode, lp_mode, low_noise) ==
    {v \in Variants("Mode") : /\ Mode_mode(v) = mode
                              /\ Mode_lp_mode(v) = lp_mode
                              /\ Mode_low_noise(v) = low_noise}

\* C28: Mode::new is total and exact over all u8 inputs: the sum
\* (low_noise << 4) + (mode << 2) + lp_mode never leaves eight bits, and the
\* result is the variant whose mode(), lp_mode() and low_noise() are the
\* three arguments when there is one, and the default ContLowPwr12bit
\* otherwise.
C28_ModeNewTotalAndExact ==
    op = "Mode_new" =>
        /\ ret.tag = "Ok"
        /\ ~ret.ovf
        /\ LET m == ModeMatching(arg[1], arg[2], arg[3])
           IN  IF m # {} THEN ret.val \in m ELSE ret.val = "ContLowPwr12bit"

\* C30: idempotence.  With no bus failure and no change made by the device,
\* a setter (of one field, of a setting held in several fields, of a routing
\* or of a user offset) called a second time in a row with the same argument
\* leaves every register as the first call left it.
C30_SettersAreIdempotent ==
    (/\ op \in Setters
     /\ prev.op = op
     /\ prev.tag = "Ok" /\ ret.tag = "Ok"
     /\ prev.arg = arg) =>
        regs = pre

\* C30 witness: a second pin_int1_route_set(0x55) in a row, which goes
\* through its four transactions and changes no register.
C30_Witness ==
    /\ Succeeded("pin_int1_route_set")
    /\ prev.op = "pin_int1_route_set" /\ prev.tag = "Ok"
    /\ arg = 85 /\ prev.arg = 85
    /\ Len(log) = 4
    /\ regs = pre
    /\ regs["Ctrl4Int1PadCtrl"] = 85

====
